---------------------------- MODULE Spec2Model ----------------------------
(***************************************************************************)
(* A model of the raytracing-potato renderer:                              *)
(*   - the tile scheduler of src/main.rs (job queue, worker threads,       *)
(*     completed tiles, join and merge) with the tiling of src/image.rs;   *)
(*   - the bounding volume hierarchy of src/bvh.rs with the primitives of  *)
(*     src/hittable.rs and the boxes of src/utility.rs.                    *)
(***************************************************************************)
EXTENDS Integers, Sequences, FiniteSets, TLC

(***************************************************************************)
(* Bounds of the model.                                                    *)
(***************************************************************************)
\* image sizes and tile sizes tried by the tiling specification
MaxDim == 5
\* image width, image height and tile edge tried by the scheduler
MaxWidth == 3
MaxHeight == 2
MaxTile == 2
\* number of tiles of the sessions the scheduler runs
MaxTiles == 4
\* number of worker threads (num_workers of main)
MaxWorkers == 2
\* seeds the entropy source may hand to a worker
MaxSeed == 1
\* number of tiles of the sessions that are rendered twice
MaxTilesTwoRuns == 3
\* number of primitives of the scenes given to Bvh::new
MaxPrims == 3
\* ray origins have their x and y in -MaxOrigin..MaxOrigin
MaxOrigin == 1
\* the finite t_max of the rays tried
MaxT == 2
\* members of a scene of aggregates, and members of a list in it
MaxNested == 2
\* the depths given to trace_path are 0..MaxDepth
MaxDepth == 3
\* primitives in a scene whose members are hit one by one
MaxMembers == 2
\* primitives in a scene that is traced
MaxScene == 2
\* primitives in a content given to make_bvh on its own
MaxBuilt == 5
\* calls of Texture::sample that the stack of the sampling thread holds
MaxFrames == 5
\* the positions sampled have their x and y in -MaxSampled..MaxSampled
MaxSampled == 1

(***************************************************************************)
(* The state.                                                              *)
(***************************************************************************)
VARIABLES
    \* ---- main.rs: the render session ----
    full_width,      \* output_width
    full_height,     \* output_height
    tile_width,      \* tile_size (columns)
    tile_height,     \* tile_size (rows)
    num_workers,     \* num_workers
    seed,            \* seed[w]: what from_entropy gives worker w
    job_queue,       \* Mutex<Vec<Tile>>: the pending tiles
    complete_jobs,   \* Mutex<Vec<Tile>>: the finished tiles
    queue_lock,      \* holder of the job_queue mutex, 0 when free
    complete_lock,   \* holder of the complete_jobs mutex, 0 when free
    pc,              \* pc[w]: position of worker w in its loop
    job,             \* job[w]: the Option<Tile> worker w holds
    rng,             \* rng[w]: state of the worker's private Randomizer
    mainpc,          \* position of the main thread
    main_i,          \* loop index of the main thread (spawn, join, merge)
    output,          \* Option<RgbaImage>: the final image
    \* ---- bookkeeping of the session (not program state) ----
    initial_tiles,   \* the tile list as Tile::new returned it
    taken,           \* taken[w]: offsets of the tiles worker w popped, in order
    run_no,          \* 1 in the trace_first render, 2 in a repeated render
    prev_seed,       \* the seeds of the trace_first render, for a repeated one
    prev_output,     \* the image of the trace_first render
    prev_taken,      \* what each worker popped in the trace_first render
    \* ---- bvh.rs, hittable.rs: one scene and one ray query ----
    hittables,       \* the Vec<Hittable> given to Bvh::new and to the List
    ray,             \* the Ray of the query
    bvh,             \* Option<Bvh>: the tree Bvh::new returned
    bvh_pc,          \* "idle", "new", "built" or "panicked"
    bvh_hit,         \* what Bvh::hit returned, once it has been called
    list_hit,        \* what hit_list returned, once it has been called
    \* ---- hittable.rs: a bounding box asked of an aggregate ----
    bbox,            \* which bounding_box was called, and how it ended
    \* ---- hittable.rs: the hit test of each member of the scene ----
    hit_out,         \* what x.hit(&ray) returned for each member x
    \* ---- render.rs: one call of trace_path ----
    depth,           \* the depth given to trace_path
    background,      \* the Emit given as background
    trace_pc,        \* "idle", "call", "first", "continue", "unwind",
                     \* "returned" or "panicked"
    trace_ray,       \* the ray of the innermost call
    trace_depth,     \* the depth of the innermost call
    frames,          \* the calls waiting for their scattered ray: the emit
                     \* and absorb of each MaterialOutput
    trace_color,     \* the Color the innermost call returned
    trace_first,     \* normal and hit of trace_path_first
    trace_out,       \* Option<PathTraceOutput>: what trace_path returned
    \* ---- bookkeeping of the path (not program state) ----
    visited,         \* the absorb colours of the materials hit, in order
    reached,         \* the background colour, once a ray has left the scene
    hits_asked,      \* the number of calls of scene.hit made
    evaluated,       \* the number of calls of Material::evaluate made
    \* ---- bvh.rs: one call of make_bvh ----
    build_axis,      \* the sort_axis given to make_bvh
    \* ---- bvh.rs: the calls of hit_node made by one Bvh::hit ----
    walk,            \* for each call, in the order the calls are made: the
                     \* node, the t_max of its ray, the primitive it tested
                     \* (-1 for none) and what it returned
    \* ---- texture.rs: one call of Texture::sample ----
    sample_table,    \* scene_data.texture_table
    sample_at,       \* hit.position
    sample_of,       \* the TextureId of the texture sampled
    sample_stack,    \* the calls of Texture::sample that have not returned:
                     \* the TextureId of the self of each, outermost first
    tail_call,       \* whether the build turns the call that ends
                     \* sample_checker into a jump that reuses the frame
    sample_pc,       \* "idle", "sampling", "returned", "panicked" or
                     \* "overflowed"
    sample_color     \* the Color returned

schedVars == <<full_width, full_height, tile_width, tile_height, num_workers,
               seed, job_queue, complete_jobs, queue_lock, complete_lock, pc,
               job, rng, mainpc, main_i, output, initial_tiles, taken,
               run_no, prev_seed, prev_output, prev_taken>>

sceneVars == <<hittables, ray, bvh, bvh_pc, bvh_hit, list_hit>>

traceVars == <<depth, background, trace_pc, trace_ray, trace_depth, frames,
               trace_color, trace_first, trace_out, visited, reached,
               hits_asked, evaluated>>

buildVars == <<build_axis>>

walkVars == <<walk>>

sampleVars == <<sample_table, sample_at, sample_of, sample_stack, tail_call,
                sample_pc, sample_color>>

callVars == <<buildVars, walkVars, sampleVars>>

queryVars == <<bbox, hit_out, traceVars, callVars>>

vars == <<schedVars, sceneVars, queryVars>>

\* no scene is queried while the scheduler is studied
SceneIdle ==
    /\ hittables = <<>>
    /\ ray = <<>>
    /\ bvh = <<>>
    /\ bvh_pc = "idle"
    /\ bvh_hit = <<>>
    /\ list_hit = <<>>

\* no path is traced
TraceIdle ==
    /\ depth = 0
    /\ background = "None"
    /\ trace_pc = "idle"
    /\ trace_ray = <<>>
    /\ trace_depth = 0
    /\ frames = <<>>
    /\ trace_color = <<>>
    /\ trace_first = <<>>
    /\ trace_out = <<>>
    /\ visited = <<>>
    /\ reached = <<>>
    /\ hits_asked = 0
    /\ evaluated = 0

\* make_bvh is called by Bvh::new only
BuildIdle == build_axis = 0

\* the calls of hit_node are not followed
WalkIdle == walk = <<>>

\* no texture is sampled on its own
SampleIdle ==
    /\ sample_table = <<>>
    /\ sample_at = <<>>
    /\ sample_of = 0
    /\ sample_stack = <<>>
    /\ tail_call = FALSE
    /\ sample_pc = "idle"
    /\ sample_color = <<>>

\* no call is studied on its own
CallIdle == BuildIdle /\ WalkIdle /\ SampleIdle

\* nothing else is asked
QueryIdle ==
    /\ bbox = <<>>
    /\ hit_out = <<>>
    /\ TraceIdle
    /\ CallIdle

Workers == 1..MaxWorkers
Seeds == 0..MaxSeed

Min(a, b) == IF a <= b THEN a ELSE b
Max(a, b) == IF a >= b THEN a ELSE b

(***************************************************************************)
(* image.rs: RgbaImage and Tile.                                           *)
(***************************************************************************)
\* the pixel RgbaImage::new fills the buffer with, [0, 0, 0, 0].  A pixel is
\* kept as its alpha byte and what its three colour bytes come from
DefaultPixel == [alpha |-> 0, of |-> <<>>]

\* RgbaImage::new(width, height)
NewImage(width, height) ==
    [width |-> width, height |-> height,
     data |-> [k \in 1..(width * height) |-> DefaultPixel]]

\* RgbaImage::get / get_mut: the index of pixel (i, j) in data, 0-based
PixelIndex(img, i, j) == i + j * img.width

\* whether data[(i + j * width)] is inside the buffer (else the index panics)
InBuffer(img, i, j) == PixelIndex(img, i, j) < Len(img.data)

GetPixel(img, i, j) == img.data[PixelIndex(img, i, j) + 1]

SetPixel(img, i, j, v) ==
    [img EXCEPT !.data = [img.data EXCEPT ![PixelIndex(img, i, j) + 1] = v]]

\* MakeTile without the clipping of the last column and row
MakeTileUnclipped(W, H, tw, th, ti, tj) ==
    [pixel_offset |-> <<ti * tw, tj * th>>, pixels |-> NewImage(tw, th)]

\* the tile at column ti, row tj of the tiling
MakeTile(W, H, tw, th, ti, tj) ==
    LET pixel_offset == <<ti * tw, tj * th>>
    IN  [pixel_offset |-> pixel_offset,
         pixels |-> NewImage(Min(tw, W - pixel_offset[1]),
                             Min(th, H - pixel_offset[2]))]

\* Tile::new panics on the division by a zero tile size
TileNewPanics(W, H, tw, th) == tw = 0 \/ th = 0

\* Tile::new(full_width, full_height, tile_width, tile_height): the tiles in
\* the order they are pushed (rows outside, columns inside)
TileNew(W, H, tw, th) ==
    LET num_tiles_i == (W + tw - 1) \div tw
        num_tiles_j == (H + th - 1) \div th
    IN  [k \in 1..(num_tiles_i * num_tiles_j) |->
            MakeTile(W, H, tw, th, (k - 1) % num_tiles_i, (k - 1) \div num_tiles_i)]

\* the pixels of the full image a tile stands for
TileRect(t) ==
    {<<t.pixel_offset[1] + i, t.pixel_offset[2] + j>> :
        i \in 0..(t.pixels.width - 1), j \in 0..(t.pixels.height - 1)}

\* Tile::write_to panics when a pixel of the tile indexes outside the image
WriteToPanics(t, img) ==
    \E j \in 0..(t.pixels.height - 1), i \in 0..(t.pixels.width - 1) :
        ~InBuffer(img, i + t.pixel_offset[1], j + t.pixel_offset[2])

\* Tile::write_to(&self, full_image): rows j, columns i, in loop order
RECURSIVE WriteToFrom(_, _, _)
WriteToFrom(t, img, k) ==
    IF k >= t.pixels.width * t.pixels.height THEN img
    ELSE LET i == k % t.pixels.width
             j == k \div t.pixels.width
         IN  WriteToFrom(t,
                SetPixel(img, i + t.pixel_offset[1], j + t.pixel_offset[2],
                         GetPixel(t.pixels, i, j)),
                k + 1)

\* a blit onto a cleared image: the pixels outside the tile are reset
WriteToCleared(t, img) == WriteToFrom(t, NewImage(img.width, img.height), 0)

WriteTo(t, img) == WriteToFrom(t, img, 0)

(***************************************************************************)
(* main.rs 129-138: what a worker computes for a tile.  The Randomizer is  *)
(* the rand crate's StdRng: a deterministic stream whose state is decided  *)
(* by the seed and the draws made since.  A pixel is computed from the     *)
(* camera and the scene, which main.rs fixes, the size of the image (the   *)
(* sampler's width and height), the place of the pixel and the generator   *)
(* as the pixel finds it: samples_jitter draws the jitter from a clone of  *)
(* it (utility.rs 87) and camera.shoot and hit_scene draw from the         *)
(* generator itself, as many numbers as the rays need (the loops of        *)
(* UnitDisk and UnitSphere, one scattering for each surface struck).  The  *)
(* colour and the number of draws are not computed here: the colour is     *)
(* kept as what it is a function of, and so is the generator.  Equal terms *)
(* are equal values in the code; terms that differ stand for values that   *)
(* may differ.                                                             *)
(***************************************************************************)
\* an Option: None, or Some(x)
None == <<>>
Some(x) == <<x>>

\* the worker's generator after the samples of pixel (i, j), main.rs
\* 132-134: the generator it started from, as far on as the rays of that
\* pixel took it
RngAfterPixel(s, i, j) == s \o <<i, j>>

\* the pixel written at (i, j) of the full image by a worker whose generator
\* is in state s: to_srgb_u8(color / num_samples), main.rs 131-136.  Its
\* alpha byte is 255: color starts as rgb(0, 0, 0), whose last component is
\* 1.0 (utility.rs 191-193), and to_srgb_u8 clamps
Shade(s, i, j) == [alpha |-> 255, of |-> <<full_width, full_height, i, j>> \o s]

\* the place in the full image of pixel k of the tile, in the order of the
\* loops over tj and ti
PixelI(t, k) == ((k - 1) % t.pixels.width) + t.pixel_offset[1]
PixelJ(t, k) == ((k - 1) \div t.pixels.width) + t.pixel_offset[2]

\* the worker's generator when it comes to pixel k of the tile
RECURSIVE RngBeforePixel(_, _, _)
RngBeforePixel(t, s, k) ==
    IF k = 1 THEN s
    ELSE RngAfterPixel(RngBeforePixel(t, s, k - 1), PixelI(t, k - 1), PixelJ(t, k - 1))

\* the loops over tj and ti of the worker: pixel k of the tile, in loop
\* order, is shaded with the generator as the k - 1 pixels before left it
RenderTile(t, s) ==
    [t EXCEPT !.pixels.data =
        [k \in 1..(t.pixels.width * t.pixels.height) |->
            Shade(RngBeforePixel(t, s, k), PixelI(t, k), PixelJ(t, k))]]

\* the worker's generator after the tile
RngAfterTile(t, s) == RngBeforePixel(t, s, t.pixels.width * t.pixels.height + 1)

\* the queue after a read of the last tile that does not remove it
PopRestKeepsTile(q) == q

\* a queue read at its front (first in, first out)
PopTileFirst(q) == q[1]

\* Vec::pop on the job queue: the tile taken and the queue left
PopTile(q) == q[Len(q)]
PopRest(q) == SubSeq(q, 1, Len(q) - 1)

(***************************************************************************)
(* Initial states.                                                         *)
(***************************************************************************)
\* the seeds from_entropy may give the n workers (none for the others)
SeedChoices(n) == {sd \in [Workers -> Seeds] : \A w \in Workers : w > n => sd[w] = 0}

InitSession(W, H, tw, th, n, sd) ==
    /\ full_width = W
    /\ full_height = H
    /\ tile_width = tw
    /\ tile_height = th
    /\ num_workers = n
    /\ seed = sd
    /\ job_queue = <<>>
    /\ complete_jobs = <<>>
    /\ queue_lock = 0
    /\ complete_lock = 0
    /\ pc = [w \in Workers |-> "unspawned"]
    /\ job = [w \in Workers |-> <<>>]
    /\ rng = [w \in Workers |-> <<>>]
    /\ mainpc = "generate"
    /\ main_i = 0
    /\ output = <<>>
    /\ initial_tiles = <<>>
    /\ taken = [w \in Workers |-> <<>>]
    /\ run_no = 1
    /\ prev_seed = <<>>
    /\ prev_output = <<>>
    /\ prev_taken = <<>>

\* one seeding from_entropy may give: the workers' seeds differ
SomeSeeds == [w \in Workers |-> (w - 1) % (MaxSeed + 1)]

\* the sessions tried: every size of the bounds whose tiling has at most
\* MaxTiles tiles (or panics), every number of workers, one seeding
Init ==
    \E W \in 0..MaxWidth, H \in 0..MaxHeight, tw \in 0..MaxTile, th \in 0..MaxTile,
       n \in 1..MaxWorkers :
        /\ IF TileNewPanics(W, H, tw, th) THEN TRUE
           ELSE Len(TileNew(W, H, tw, th)) <= MaxTiles
        /\ InitSession(W, H, tw, th, n, SomeSeeds)
        /\ SceneIdle
        /\ QueryIdle

(***************************************************************************)
(* The main thread.                                                        *)
(***************************************************************************)
\* main.rs 103-107: the job queue is the tiling; a zero tile size panics
Generate ==
    /\ mainpc = "generate"
    /\ IF TileNewPanics(full_width, full_height, tile_width, tile_height)
       THEN /\ mainpc' = "panicked"
            /\ UNCHANGED <<job_queue, initial_tiles, main_i>>
       ELSE /\ job_queue' = TileNew(full_width, full_height, tile_width, tile_height)
            /\ initial_tiles' = job_queue'
            /\ mainpc' = "spawn"
            /\ main_i' = 1
    /\ UNCHANGED <<full_width, full_height, tile_width, tile_height, num_workers,
                   seed, complete_jobs, queue_lock, complete_lock, pc, job, rng,
                   output, taken, run_no, prev_seed, prev_output, prev_taken>>
    /\ UNCHANGED sceneVars
    /\ UNCHANGED queryVars

\* a generator seeded with more than the seed (the time of the run)
SeedRngPerRun(w) == <<seed[w] + run_no>>

\* main.rs 114: the generator a worker starts with
SeedRng(w) == <<seed[w]>>

\* main.rs 111-147: one worker is seeded and spawned per iteration
Spawn ==
    /\ mainpc = "spawn"
    /\ IF main_i <= num_workers
       THEN /\ rng' = [rng EXCEPT ![main_i] = SeedRng(main_i)]
            /\ pc' = [pc EXCEPT ![main_i] = "lock_queue"]
            /\ main_i' = main_i + 1
            /\ UNCHANGED mainpc
       ELSE /\ mainpc' = "join"
            /\ main_i' = 1
            /\ UNCHANGED <<rng, pc>>
    /\ UNCHANGED <<full_width, full_height, tile_width, tile_height, num_workers,
                   seed, job_queue, complete_jobs, queue_lock, complete_lock, job,
                   output, initial_tiles, taken, run_no, prev_seed, prev_output,
                   prev_taken>>
    /\ UNCHANGED sceneVars
    /\ UNCHANGED queryVars

\* a join whose result is dropped: a panicked worker counts as joined
JoinIgnoresPanic ==
    /\ mainpc = "join"
    /\ main_i <= num_workers
    /\ pc[main_i] \in {"exited", "panicked"}
    /\ main_i' = main_i + 1
    /\ UNCHANGED <<full_width, full_height, tile_width, tile_height, num_workers,
                   seed, job_queue, complete_jobs, queue_lock, complete_lock, pc,
                   job, rng, mainpc, output, initial_tiles, taken, run_no,
                   prev_seed, prev_output, prev_taken>>
    /\ UNCHANGED sceneVars
    /\ UNCHANGED queryVars

\* main.rs 149-151: w.join().unwrap() returns once the worker has ended, and
\* panics when the worker ended by a panic
Join ==
    /\ mainpc = "join"
    /\ main_i <= num_workers
    /\ pc[main_i] \in {"exited", "panicked"}
    /\ IF pc[main_i] = "panicked"
       THEN mainpc' = "panicked" /\ UNCHANGED main_i
       ELSE main_i' = main_i + 1 /\ UNCHANGED mainpc
    /\ UNCHANGED <<full_width, full_height, tile_width, tile_height, num_workers,
                   seed, job_queue, complete_jobs, queue_lock, complete_lock, pc,
                   job, rng, output, initial_tiles, taken, run_no, prev_seed,
                   prev_output, prev_taken>>
    /\ UNCHANGED sceneVars
    /\ UNCHANGED queryVars

\* main.rs 157: all workers joined, the output image is created
NewOutput ==
    /\ mainpc = "join"
    /\ main_i > num_workers
    /\ output' = <<NewImage(full_width, full_height)>>
    /\ mainpc' = "merge"
    /\ main_i' = 1
    /\ UNCHANGED <<full_width, full_height, tile_width, tile_height, num_workers,
                   seed, job_queue, complete_jobs, queue_lock, complete_lock, pc,
                   job, rng, initial_tiles, taken, run_no, prev_seed, prev_output,
                   prev_taken>>
    /\ UNCHANGED sceneVars
    /\ UNCHANGED queryVars

\* the holder of a mutex that the main thread has locked
MainThread == MaxWorkers + 1

\* main.rs 158-160: one iteration of the merge loop, tile.write_to(&mut output).
\* complete_jobs.lock().unwrap() is evaluated once, before the first
\* iteration, and its guard lives until the loop ends: the main thread
\* holds the mutex from the first iteration until the iterator is exhausted
\* or a panic unwinds the loop
Merge ==
    /\ mainpc = "merge"
    /\ complete_lock = IF main_i = 1 THEN 0 ELSE MainThread
    /\ IF main_i <= Len(complete_jobs)
       THEN IF WriteToPanics(complete_jobs[main_i], output[1])
            THEN /\ mainpc' = "panicked"
                 /\ complete_lock' = 0
                 /\ UNCHANGED <<output, main_i>>
            ELSE /\ output' = <<WriteTo(complete_jobs[main_i], output[1])>>
                 /\ main_i' = main_i + 1
                 /\ complete_lock' = MainThread
                 /\ UNCHANGED mainpc
       ELSE /\ mainpc' = "save"
            /\ complete_lock' = 0
            /\ UNCHANGED <<output, main_i>>
    /\ UNCHANGED <<full_width, full_height, tile_width, tile_height, num_workers,
                   seed, job_queue, complete_jobs, queue_lock, pc,
                   job, rng, initial_tiles, taken, run_no, prev_seed, prev_output,
                   prev_taken>>
    /\ UNCHANGED sceneVars
    /\ UNCHANGED queryVars

\* main.rs 163-164: tga::save(&output, output_name).unwrap().  tga::save
\* (image.rs 119-141) returns Err when the file cannot be created or written
\* or when a side of the image does not fit the header, and main panics on it
Save ==
    /\ mainpc = "save"
    /\ mainpc' \in {"done", "panicked"}
    /\ UNCHANGED <<full_width, full_height, tile_width, tile_height, num_workers,
                   seed, job_queue, complete_jobs, queue_lock, complete_lock, pc,
                   job, rng, main_i, output, initial_tiles, taken, run_no,
                   prev_seed, prev_output, prev_taken>>
    /\ UNCHANGED sceneVars
    /\ UNCHANGED queryVars

(***************************************************************************)
(* A worker thread (main.rs 121-146).                                      *)
(***************************************************************************)
\* the process ends when main returns or panics: no thread runs after that
Running == mainpc \notin {"done", "panicked"}

\* a guard that outlives its statement: the worker keeps the mutex
GuardKept(w) == w

\* the holder of a mutex once worker w's guard, a temporary, is dropped
GuardDropped(w) == 0

\* job_queue.lock().unwrap(): blocks while another thread holds the mutex
LockQueue(w) ==
    /\ Running
    /\ pc[w] = "lock_queue"
    /\ queue_lock = 0
    /\ queue_lock' = w
    /\ pc' = [pc EXCEPT ![w] = "pop"]
    /\ UNCHANGED <<full_width, full_height, tile_width, tile_height, num_workers,
                   seed, job_queue, complete_jobs, complete_lock, job, rng,
                   mainpc, main_i, output, initial_tiles, taken, run_no,
                   prev_seed, prev_output, prev_taken>>
    /\ UNCHANGED sceneVars
    /\ UNCHANGED queryVars

\* .pop() and the drop of the guard; None breaks out of the loop
Pop(w) ==
    /\ Running
    /\ pc[w] = "pop"
    /\ queue_lock = w
    /\ queue_lock' = GuardDropped(w)
    /\ IF job_queue # <<>>
       THEN /\ job' = [job EXCEPT ![w] = <<PopTile(job_queue)>>]
            /\ job_queue' = PopRest(job_queue)
            /\ taken' = [taken EXCEPT ![w] = Append(taken[w], PopTile(job_queue).pixel_offset)]
            /\ pc' = [pc EXCEPT ![w] = "render"]
       ELSE /\ pc' = [pc EXCEPT ![w] = "exited"]
            /\ UNCHANGED <<job, job_queue, taken>>
    /\ UNCHANGED <<full_width, full_height, tile_width, tile_height, num_workers,
                   seed, complete_jobs, complete_lock, rng, mainpc, main_i,
                   output, initial_tiles, run_no, prev_seed, prev_output,
                   prev_taken>>
    /\ UNCHANGED sceneVars
    /\ UNCHANGED queryVars

\* the loops over the pixels of the tile, with the worker's own generator
Render(w) ==
    /\ Running
    /\ pc[w] = "render"
    /\ job' = [job EXCEPT ![w] = <<RenderTile(job[w][1], rng[w])>>]
    /\ rng' = [rng EXCEPT ![w] = RngAfterTile(job[w][1], rng[w])]
    /\ pc' = [pc EXCEPT ![w] = "lock_complete"]
    /\ UNCHANGED <<full_width, full_height, tile_width, tile_height, num_workers,
                   seed, job_queue, complete_jobs, queue_lock, complete_lock,
                   mainpc, main_i, output, initial_tiles, taken, run_no,
                   prev_seed, prev_output, prev_taken>>
    /\ UNCHANGED sceneVars
    /\ UNCHANGED queryVars

\* a panic while the tile is rendered: the thread unwinds, its tile is dropped
RenderPanic(w) ==
    /\ Running
    /\ pc[w] = "render"
    /\ job' = [job EXCEPT ![w] = <<>>]
    /\ pc' = [pc EXCEPT ![w] = "panicked"]
    /\ UNCHANGED <<full_width, full_height, tile_width, tile_height, num_workers,
                   seed, job_queue, complete_jobs, queue_lock, complete_lock, rng,
                   mainpc, main_i, output, initial_tiles, taken, run_no,
                   prev_seed, prev_output, prev_taken>>
    /\ UNCHANGED sceneVars
    /\ UNCHANGED queryVars

\* complete_jobs.lock().unwrap()
LockComplete(w) ==
    /\ Running
    /\ pc[w] = "lock_complete"
    /\ complete_lock = 0
    /\ complete_lock' = w
    /\ pc' = [pc EXCEPT ![w] = "push"]
    /\ UNCHANGED <<full_width, full_height, tile_width, tile_height, num_workers,
                   seed, job_queue, complete_jobs, queue_lock, job, rng, mainpc,
                   main_i, output, initial_tiles, taken, run_no, prev_seed,
                   prev_output, prev_taken>>
    /\ UNCHANGED sceneVars
    /\ UNCHANGED queryVars

\* a push that overwrites the last finished tile instead of appending
PushOverwrites(w) ==
    /\ Running
    /\ pc[w] = "push"
    /\ complete_lock = w
    /\ complete_jobs' = IF complete_jobs = <<>> THEN <<job[w][1]>>
                        ELSE [complete_jobs EXCEPT ![Len(complete_jobs)] = job[w][1]]
    /\ job' = [job EXCEPT ![w] = <<>>]
    /\ complete_lock' = 0
    /\ pc' = [pc EXCEPT ![w] = "lock_queue"]
    /\ UNCHANGED <<full_width, full_height, tile_width, tile_height, num_workers,
                   seed, job_queue, queue_lock, rng, mainpc, main_i, output,
                   initial_tiles, taken, run_no, prev_seed, prev_output,
                   prev_taken>>
    /\ UNCHANGED sceneVars
    /\ UNCHANGED queryVars

\* .push(tile) and the drop of the guard; the worker loops
Push(w) ==
    /\ Running
    /\ pc[w] = "push"
    /\ complete_lock = w
    /\ complete_jobs' = Append(complete_jobs, job[w][1])
    /\ job' = [job EXCEPT ![w] = <<>>]
    /\ complete_lock' = GuardDropped(w)
    /\ pc' = [pc EXCEPT ![w] = "lock_queue"]
    /\ UNCHANGED <<full_width, full_height, tile_width, tile_height, num_workers,
                   seed, job_queue, queue_lock, rng, mainpc, main_i, output,
                   initial_tiles, taken, run_no, prev_seed, prev_output,
                   prev_taken>>
    /\ UNCHANGED sceneVars
    /\ UNCHANGED queryVars

\* the steps of worker w when no render panics
WorkerStep(w) ==
    \/ LockQueue(w)
    \/ Pop(w)
    \/ Render(w)
    \/ LockComplete(w)
    \/ Push(w)

MainStep ==
    \/ Generate
    \/ Spawn
    \/ Join
    \/ NewOutput
    \/ Merge
    \/ Save

\* every step of a render in which no tile render panics
NextLive ==
    \/ Generate
    \/ Spawn
    \/ Join
    \/ NewOutput
    \/ Merge
    \/ Save
    \/ \E w \in Workers : LockQueue(w)
    \/ \E w \in Workers : Pop(w)
    \/ \E w \in Workers : Render(w)
    \/ \E w \in Workers : LockComplete(w)
    \/ \E w \in Workers : Push(w)

Next ==
    \/ NextLive
    \/ \E w \in Workers : RenderPanic(w)

\* one render, with every interleaving of the threads and any render panicking
Spec == Init /\ [][Next]_vars

\* renders whose tile renders all return, under a scheduler that lets every
\* thread that can run take a step
SpecLive ==
    /\ Init
    /\ [][NextLive]_vars
    /\ WF_vars(MainStep)
    /\ \A w \in Workers : WF_vars(WorkerStep(w))

(***************************************************************************)
(* The tiling alone: Tile::new on every image and tile size of the bound.  *)
(***************************************************************************)
InitTile ==
    \E W \in 0..MaxDim, H \in 0..MaxDim, tw \in 0..MaxDim, th \in 0..MaxDim :
        /\ InitSession(W, H, tw, th, 1, [w \in Workers |-> 0])
        /\ SceneIdle
        /\ QueryIdle

NextTile == Generate

SpecTile == InitTile /\ [][NextTile]_vars

(***************************************************************************)
(* A second render of the same scene after the first: the program is run   *)
(* again; from_entropy seeds its workers anew.                             *)
(***************************************************************************)
Restart ==
    /\ mainpc = "done"
    /\ run_no = 1
    /\ run_no' = 2
    /\ prev_seed' = seed
    /\ prev_output' = output
    /\ prev_taken' = taken
    /\ seed' \in SeedChoices(num_workers)
    /\ job_queue' = <<>>
    /\ complete_jobs' = <<>>
    /\ pc' = [w \in Workers |-> "unspawned"]
    /\ job' = [w \in Workers |-> <<>>]
    /\ rng' = [w \in Workers |-> <<>>]
    /\ mainpc' = "generate"
    /\ main_i' = 0
    /\ output' = <<>>
    /\ initial_tiles' = <<>>
    /\ taken' = [w \in Workers |-> <<>>]
    /\ UNCHANGED <<full_width, full_height, tile_width, tile_height, num_workers,
                   queue_lock, complete_lock>>
    /\ UNCHANGED sceneVars
    /\ UNCHANGED queryVars

\* the sessions compared: those of at most MaxTilesTwoRuns tiles, with
\* every seeding
InitTwoRuns ==
    \E W \in 0..MaxWidth, H \in 0..MaxHeight, tw \in 1..MaxTile, th \in 1..MaxTile,
       n \in 1..MaxWorkers :
        /\ Len(TileNew(W, H, tw, th)) <= MaxTilesTwoRuns
        /\ \E sd \in SeedChoices(n) : InitSession(W, H, tw, th, n, sd)
        /\ SceneIdle
        /\ QueryIdle

NextTwoRuns ==
    \/ NextLive
    \/ Restart

SpecTwoRuns == InitTwoRuns /\ [][NextTwoRuns]_vars

(***************************************************************************)
(* The geometry (utility.rs, hittable.rs, mesh.rs, bvh.rs).                *)
(*                                                                         *)
(* A Real is an integer, or one of the three values of f64 arithmetic that *)
(* are not numbers of the line: INFINITY, -INFINITY and NAN.  The scenes   *)
(* and rays tried have integer coordinates and rays along an axis, so that *)
(* every product, quotient and square root of the code is exact in f64     *)
(* and is the integer computed here; a quotient or a root that would not   *)
(* be exact has no value here and stops the evaluation.                    *)
(***************************************************************************)
\* utility.rs 28: larger than every number of the scenes tried
INFINITY == 1000000
\* what 0.0 * INFINITY gives (utility.rs 133-134)
NAN == 2 * INFINITY
\* a finite real that is not computed here: a coordinate of a unit vector
\* drawn at random, and whatever is computed from one.  A comparison with it
\* may go either way
UNKNOWN == 3 * INFINITY

\* the vectors of which nothing is a number, and of which nothing is computed
NaNs == <<NAN, NAN, NAN>>
Unknowns == <<UNKNOWN, UNKNOWN, UNKNOWN>>

Abs(x) == IF x < 0 THEN -x ELSE x
Sign(x) == IF x > 0 THEN 1 ELSE IF x < 0 THEN -1 ELSE 0
IsInf(x) == x = INFINITY \/ x = -INFINITY

\* f64 x * y
FMul(x, y) ==
    IF x = NAN \/ y = NAN THEN NAN
    ELSE IF IsInf(x) \/ IsInf(y)
         THEN IF x = 0 \/ y = 0 THEN NAN ELSE Sign(x) * Sign(y) * INFINITY
         ELSE x * y

\* f64 x / y for finite x, with y = 0 the positive zero
FDiv(x, y) ==
    IF y = 0
    THEN IF x = 0 THEN NAN ELSE Sign(x) * INFINITY
    ELSE CHOOSE q \in -Abs(x)..Abs(x) : q * y = x

\* f64::min and f64::max: when one argument is NaN the other is returned
FMin(x, y) == IF x = NAN THEN y ELSE IF y = NAN THEN x ELSE Min(x, y)
FMax(x, y) == IF x = NAN THEN y ELSE IF y = NAN THEN x ELSE Max(x, y)

\* f64::sqrt
Sqrt(x) == CHOOSE r \in 0..x : r * r = x

\* Rvec3
Sub(a, b) == <<a[1] - b[1], a[2] - b[2], a[3] - b[3]>>
Add(a, b) == <<a[1] + b[1], a[2] + b[2], a[3] + b[3]>>
Scale(t, a) == <<t * a[1], t * a[2], t * a[3]>>
Dot(a, b) == a[1] * b[1] + a[2] * b[2] + a[3] * b[3]
NormSquared(a) == Dot(a, a)
ComponentMul(a, b) == <<FMul(a[1], b[1]), FMul(a[2], b[2]), FMul(a[3], b[3])>>

\* utility.rs 35-44
Ray(origin, direction, t_min, t_max) ==
    [origin |-> origin, direction |-> direction, t_min |-> t_min, t_max |-> t_max]

\* utility.rs 54-56
At(r, t) == Add(r.origin, Scale(t, r.direction))

\* utility.rs 58-64
Expand(r) ==
    [inner |-> r,
     inv_direction |-> <<FDiv(1, r.direction[1]), FDiv(1, r.direction[2]),
                         FDiv(1, r.direction[3])>>]

\* utility.rs 118-121
AABB(min, max) == [min |-> min, max |-> max]

\* a union that keeps the far corner of the first box
UnionKeepsMax(self, other) ==
    AABB(<<FMin(self.min[1], other.min[1]), FMin(self.min[2], other.min[2]),
           FMin(self.min[3], other.min[3])>>,
         self.max)

\* utility.rs 124-129
Union(self, other) ==
    AABB(<<FMin(self.min[1], other.min[1]), FMin(self.min[2], other.min[2]),
           FMin(self.min[3], other.min[3])>>,
         <<FMax(self.max[1], other.max[1]), FMax(self.max[2], other.max[2]),
           FMax(self.max[3], other.max[3])>>)

\* utility.rs 131-147: the slab test, on an expanded ray
Collide(self, r) ==
    LET t0 == ComponentMul(Sub(self.min, r.inner.origin), r.inv_direction)
        t1 == ComponentMul(Sub(self.max, r.inner.origin), r.inv_direction)
        t_min == FMax(FMax(FMax(r.inner.t_min, FMin(t0[1], t1[1])),
                           FMin(t0[2], t1[2])),
                      FMin(t0[3], t1[3]))
        t_max == FMin(FMin(FMin(r.inner.t_max, FMax(t0[1], t1[1])),
                           FMax(t0[2], t1[2])),
                      FMax(t0[3], t1[3]))
    IN  t_max > t_min

\* hittable.rs 11-12: the two primitives
Sphere(center, radius, material) ==
    [kind |-> "Sphere", center |-> center, radius |-> radius, material |-> material]
Triangle(triangle, mesh) ==
    [kind |-> "Triangle", triangle |-> triangle, mesh |-> mesh]

\* hittable.rs 13-14: the two aggregates
ListOf(list) == [kind |-> "List", list |-> list]
BvhOf(b) == [kind |-> "Bvh", bvh |-> b]

\* mesh.rs 7-11: a vertex, of which the hit tests read the position and the
\* normal
Vertex(position, normal) == [position |-> position, normal |-> normal]

\* mesh.rs 18-22, the mesh_table of the scene data.  MeshId(0) has two
\* triangles, TriangleId(0) in the plane z = -2 and TriangleId(3) in the
\* plane z = y - 4; MeshId(1) has one, in the plane z = 2, whose vertex
\* normals point along y
MeshTable ==
    << [vertices |-> << Vertex(<<-2, -2, -2>>, <<0, 0, 1>>),
                        Vertex(<<2, -2, -2>>, <<0, 0, 1>>),
                        Vertex(<<-2, 2, -2>>, <<0, 0, 1>>),
                        Vertex(<<-2, 0, -4>>, <<0, 0, 1>>),
                        Vertex(<<2, 0, -4>>, <<0, 0, 1>>),
                        Vertex(<<-2, 4, 0>>, <<0, 0, 1>>) >>,
        indices |-> <<0, 1, 2, 3, 4, 5>>,
        material |-> 2],
       [vertices |-> << Vertex(<<-2, -2, 2>>, <<0, 1, 0>>),
                        Vertex(<<2, -2, 2>>, <<0, 1, 0>>),
                        Vertex(<<-2, 2, 2>>, <<0, 1, 0>>) >>,
        indices |-> <<0, 1, 2>>,
        material |-> 0] >>

\* mesh.rs 25-30
GetTriangle(mesh, triangle) ==
    << mesh.vertices[mesh.indices[triangle + 1] + 1],
       mesh.vertices[mesh.indices[triangle + 2] + 1],
       mesh.vertices[mesh.indices[triangle + 3] + 1] >>

\* hittable.rs 62, 107: the pair (Hit, MaterialId) a hit test returns, with
\* the fields t, position and normal of the Hit
MakeHit(t, position, normal, material) ==
    [hit |-> [t |-> t, position |-> position, normal |-> normal],
     material |-> material]

\* Rvec3::normalize
Normalize(a) ==
    LET norm == Sqrt(NormSquared(a))
    IN  <<FDiv(a[1], norm), FDiv(a[2], norm), FDiv(a[3], norm)>>

\* hittable.rs 59-60: the normal of a sphere at a position on it
SphereNormal(center, position) == Normalize(Sub(position, center))

\* hittable.rs 105: the normal interpolated with the weights w, u and v, which
\* are (s.det - s.u - s.v) / s.det, s.u / s.det and s.v / s.det
TriangleNormal(tri, s) ==
    LET sum == Add(Scale(s.det - s.u - s.v, tri[1].normal),
                   Add(Scale(s.u, tri[2].normal), Scale(s.v, tri[3].normal)))
    IN  <<FDiv(sum[1], s.det), FDiv(sum[2], s.det), FDiv(sum[3], s.det)>>

\* a hit_sphere that never tries the further root
HitSphereCloserOnly(center, radius, material, r) ==
    LET to_center == Sub(r.origin, center)
        a == NormSquared(r.direction)
        half_b == Dot(r.direction, to_center)
        c == NormSquared(to_center) - radius * radius
        delta == half_b * half_b - a * c
        closer == FDiv(-half_b - Sqrt(delta), a)
    IN  IF delta <= 0 THEN None
        ELSE IF closer < r.t_min \/ closer > r.t_max THEN None
        ELSE Some(MakeHit(closer, At(r, closer),
                          SphereNormal(center, At(r, closer)), material))

\* hittable.rs 39-63
HitSphere(center, radius, material, r) ==
    LET to_center == Sub(r.origin, center)
        a == NormSquared(r.direction)
        half_b == Dot(r.direction, to_center)
        c == NormSquared(to_center) - radius * radius
        delta == half_b * half_b - a * c
        sqrt_delta == Sqrt(delta)
        closer == FDiv(-half_b - sqrt_delta, a)
        further == FDiv(-half_b + sqrt_delta, a)
        Outside(t) == t < r.t_min \/ t > r.t_max
    IN  IF delta <= 0 THEN None
        ELSE IF ~Outside(closer)
             THEN Some(MakeHit(closer, At(r, closer),
                               SphereNormal(center, At(r, closer)), material))
        ELSE IF Outside(further) THEN None
        ELSE Some(MakeHit(further, At(r, further),
                          SphereNormal(center, At(r, further)), material))

\* hittable.rs 77-95: the determinant and the numerators of t, u and v over it
TriangleSystem(tri, r) ==
    LET ba == Sub(tri[1].position, tri[2].position)
        ca == Sub(tri[1].position, tri[3].position)
        pa == Sub(tri[1].position, r.origin)
        d == r.direction
    IN  [det |-> ba[1] * ca[2] * d[3] + ba[2] * ca[3] * d[1] + ba[3] * ca[1] * d[2]
                 - ba[1] * ca[3] * d[2] - ba[2] * ca[1] * d[3] - ba[3] * ca[2] * d[1],
         t |-> pa[1] * (ba[2] * ca[3] - ba[3] * ca[2])
               + pa[2] * (ba[3] * ca[1] - ba[1] * ca[3])
               + pa[3] * (ba[1] * ca[2] - ba[2] * ca[1]),
         u |-> pa[1] * (ca[2] * d[3] - ca[3] * d[2])
               + pa[2] * (ca[3] * d[1] - ca[1] * d[3])
               + pa[3] * (ca[1] * d[2] - ca[2] * d[1]),
         v |-> pa[1] * (ba[3] * d[2] - ba[2] * d[3])
               + pa[2] * (ba[1] * d[3] - ba[3] * d[1])
               + pa[3] * (ba[2] * d[1] - ba[1] * d[2])]

\* a hit_triangle that does not test w
HitTriangleNoW(triangle, mesh, r) ==
    LET tri == GetTriangle(MeshTable[mesh + 1], triangle)
        s == TriangleSystem(tri, r)
        t == FDiv(s.t, s.det)
    IN  IF s.det = 0 THEN None
        ELSE IF t < r.t_min \/ t > r.t_max \/ s.u * s.det < 0 \/ s.v * s.det < 0
             THEN None
             ELSE Some(MakeHit(t, At(r, t), TriangleNormal(tri, s),
                               MeshTable[mesh + 1].material))

\* hittable.rs 65-108.  u, v and w are the quotients s.u / s.det, s.v / s.det
\* and (s.det - s.u - s.v) / s.det, of which the code tests the sign; on an
\* integer determinant, det.abs() < SMOL is det = 0
HitTriangle(triangle, mesh, r) ==
    LET tri == GetTriangle(MeshTable[mesh + 1], triangle)
        s == TriangleSystem(tri, r)
        t == FDiv(s.t, s.det)
        u_negative == s.u * s.det < 0
        v_negative == s.v * s.det < 0
        w_negative == (s.det - s.u - s.v) * s.det < 0
    IN  IF s.det = 0 THEN None
        ELSE IF t < r.t_min \/ t > r.t_max \/ u_negative \/ v_negative \/ w_negative
             THEN None
             ELSE Some(MakeHit(t, At(r, t), TriangleNormal(tri, s),
                               MeshTable[mesh + 1].material))

RECURSIVE Hit(_, _), HitList(_, _), BvhHitOf(_, _)

\* hittable.rs 18-25
Hit(x, r) ==
    IF x.kind = "Sphere" THEN HitSphere(x.center, x.radius, x.material, r)
    ELSE IF x.kind = "Triangle" THEN HitTriangle(x.triangle, x.mesh, r)
    ELSE IF x.kind = "List" THEN HitList(x.list, r)
    ELSE BvhHitOf(x.bvh, r)

\* a loop that replaces its best hit only by a strictly closer one
RECURSIVE HitListFromStrict(_, _, _, _)
HitListFromStrict(list, i, r, hit) ==
    IF i > Len(list) THEN hit
    ELSE LET new_hit == Hit(list[i], r)
         IN  IF new_hit # None /\ (hit = None \/ new_hit[1].hit.t < hit[1].hit.t)
             THEN HitListFromStrict(list, i + 1,
                                    [r EXCEPT !.t_max = new_hit[1].hit.t], new_hit)
             ELSE HitListFromStrict(list, i + 1, r, hit)

\* hittable.rs 110-120: the loop from member i on, hit being the best so far
RECURSIVE HitListFrom(_, _, _, _)
HitListFrom(list, i, r, hit) ==
    IF i > Len(list) THEN hit
    ELSE LET new_hit == Hit(list[i], r)
         IN  IF new_hit # None
             THEN HitListFrom(list, i + 1, [r EXCEPT !.t_max = new_hit[1].hit.t], new_hit)
             ELSE HitListFrom(list, i + 1, r, hit)

HitList(list, r) == HitListFrom(list, 1, r, None)

\* hittable.rs 124-129
BoundingBoxSphere(center, radius) ==
    AABB(Sub(center, <<radius, radius, radius>>), Add(center, <<radius, radius, radius>>))

\* hittable.rs 131-140
BoundingBoxTriangle(triangle, mesh) ==
    LET tri == GetTriangle(MeshTable[mesh + 1], triangle)
        a == tri[1].position
        b == tri[2].position
        c == tri[3].position
    IN  AABB(<<FMin(FMin(a[1], b[1]), c[1]), FMin(FMin(a[2], b[2]), c[2]),
               FMin(FMin(a[3], b[3]), c[3])>>,
             <<FMax(FMax(a[1], b[1]), c[1]), FMax(FMax(a[2], b[2]), c[2]),
               FMax(FMax(a[3], b[3]), c[3])>>)

\* how a call that may panic ends: Returned(v) when it returns v, Panicked
\* when it unwinds
Returned(v) == <<v>>
Panicked == <<>>

\* a bounding_box that answers for a Bvh with the box of its root
BoundingBoxOfRoot(b) == Returned(b.nodes[b.root + 1].aabb)

\* hittable.rs 32: the Bvh arm of bounding_box
BoundingBoxOfBvh(b) == Panicked

RECURSIVE BoundingBoxCall(_)

\* hittable.rs 146: the fold over the members from member i on
RECURSIVE BoundingBoxListFrom(_, _, _)
BoundingBoxListFrom(list, i, aabb) ==
    IF i > Len(list) THEN Returned(aabb)
    ELSE LET next == BoundingBoxCall(list[i])
         IN  IF next = Panicked THEN Panicked
             ELSE BoundingBoxListFrom(list, i + 1, Union(aabb, next[1]))

\* hittable.rs 142-147; AABB::default() is the box of the origin alone
BoundingBoxList(list) ==
    IF Len(list) = 0 THEN Returned(AABB(<<0, 0, 0>>, <<0, 0, 0>>))
    ELSE LET first == BoundingBoxCall(list[1])
         IN  IF first = Panicked THEN Panicked
             ELSE BoundingBoxListFrom(list, 2, first[1])

\* hittable.rs 27-34: the call, which returns a box or panics
BoundingBoxCall(x) ==
    IF x.kind = "Sphere" THEN Returned(BoundingBoxSphere(x.center, x.radius))
    ELSE IF x.kind = "Triangle" THEN Returned(BoundingBoxTriangle(x.triangle, x.mesh))
    ELSE IF x.kind = "List" THEN BoundingBoxList(x.list)
    ELSE BoundingBoxOfBvh(x.bvh)

\* hittable.rs 27-34: the box the call returns
BoundingBox(x) == BoundingBoxCall(x)[1]

\* bvh.rs 12-15
Branch(aabb, left, right) == [kind |-> "Branch", aabb |-> aabb, left |-> left, right |-> right]
Leaf(aabb, leaf) == [kind |-> "Leaf", aabb |-> aabb, leaf |-> leaf]

\* an order of the boxes by their centroids on x, whatever the axis asked
CentroidLessEqOnX(x_bb, y_bb, sort_axis) ==
    x_bb.min[1] + x_bb.max[1] <= y_bb.min[1] + y_bb.max[1]

\* bvh.rs 61-63: the order of two boxes is that of their centroids on the
\* axis; halving is exact, so the sums min + max are in the same order
CentroidLessEq(x_bb, y_bb, sort_axis) ==
    x_bb.min[sort_axis + 1] + x_bb.max[sort_axis + 1]
        <= y_bb.min[sort_axis + 1] + y_bb.max[sort_axis + 1]

\* bvh.rs 60-64: sort_unstable_by leaves the content in some order that is
\* sorted by centroid; which one, among equal centroids, is unspecified
SortUnstableBy(content, sort_axis) ==
    { s \in { [i \in 1..Len(content) |-> content[f[i]]] : f \in Permutations(1..Len(content)) } :
        \A i \in 1..(Len(s) - 1) : CentroidLessEq(s[i][2], s[i + 1][2], sort_axis) }

\* a split that cuts the first element off the sorted content
SplitAtOne(content, sort_axis) ==
    { <<SubSeq(s, 1, 1), SubSeq(s, 2, Len(s))>> :
        s \in SortUnstableBy(content, sort_axis) }

\* bvh.rs 58-67: the two halves, split at len / 2
Split(content, sort_axis) ==
    { <<SubSeq(s, 1, Len(s) \div 2), SubSeq(s, (Len(s) \div 2) + 1, Len(s))>> :
        s \in SortUnstableBy(content, sort_axis) }

\* a leaf that takes the index of its node for the id of its primitive
LeafOfNode(content, nodes) == Leaf(content[1][2], Len(nodes))

\* bvh.rs 42-43: the leaf of a content of one pair (leaf, aabb)
LeafOfContent(content, nodes) == Leaf(content[1][2], content[1][1])

\* bvh.rs 36-56: the trees make_bvh may build, each as the nodes after the
\* call and the id of the subtree's root; none for an empty content, on
\* which the code panics
RECURSIVE MakeBvh(_, _, _)
MakeBvh(content, sort_axis, nodes) ==
    IF Len(content) = 0 THEN {}
    ELSE IF Len(content) = 1
    THEN { [nodes |-> Append(nodes, LeafOfContent(content, nodes)), id |-> Len(nodes)] }
    ELSE UNION { UNION { { [nodes |-> Append(right.nodes,
                                        Branch(Union(right.nodes[left.id + 1].aabb,
                                                     right.nodes[right.id + 1].aabb),
                                               left.id, right.id)),
                            id |-> Len(right.nodes)]
                           : right \in MakeBvh(halves[2], (sort_axis + 1) % 3, left.nodes) }
                       : left \in MakeBvh(halves[1], (sort_axis + 1) % 3, nodes) }
               : halves \in Split(content, sort_axis) }

\* bvh.rs 40: unreachable!() is reached on an empty content
MakeBvhPanics(content) == Len(content) = 0

\* bvh.rs 71: a bounding_box of the map panics
ContentPanics(hs) == \E i \in 1..Len(hs) : BoundingBoxCall(hs[i]) = Panicked

\* bvh.rs 71-72: the pairs (id, bounding box), ids from 0
Content(hs) == [i \in 1..Len(hs) |-> <<i - 1, BoundingBox(hs[i])>>]

\* bvh.rs 70-91: the Bvh values Bvh::new may return
BvhNewOf(hs) ==
    { [leaves |-> hs, nodes |-> made.nodes, root |-> made.id] :
        made \in MakeBvh(Content(hs), 0, <<>>) }

\* bvh.rs 93-119
RECURSIVE HitNode(_, _, _)
HitNode(self, r, node) ==
    LET n == self.nodes[node + 1]
    IN  IF n.kind = "Leaf"
        THEN IF Collide(n.aabb, r) THEN Hit(self.leaves[n.leaf + 1], r.inner) ELSE None
        ELSE IF Collide(n.aabb, r)
             THEN LET left_hit == HitNode(self, r, n.left)
                      r2 == IF left_hit # None
                            THEN [r EXCEPT !.inner.t_max = left_hit[1].hit.t]
                            ELSE r
                      right_hit == HitNode(self, r2, n.right)
                  IN  IF right_hit # None THEN right_hit ELSE left_hit
             ELSE None

\* bvh.rs 121-124
BvhHitOf(self, r) == HitNode(self, Expand(r), self.root)

\* one call of hit_node, as the traversal is followed
Called(node, r, tested, out) ==
    [node |-> node, t_max |-> r.inner.t_max, tested |-> tested, out |-> out]

\* a hit_node that tests the right child with the ray it was given
RECURSIVE HitNodeCallsSameRay(_, _, _)
HitNodeCallsSameRay(self, r, node) ==
    LET n == self.nodes[node + 1]
    IN  IF n.kind = "Leaf"
        THEN IF Collide(n.aabb, r)
             THEN <<Called(node, r, n.leaf, Hit(self.leaves[n.leaf + 1], r.inner))>>
             ELSE <<Called(node, r, -1, None)>>
        ELSE IF Collide(n.aabb, r)
             THEN LET left_calls == HitNodeCallsSameRay(self, r, n.left)
                      left_hit == left_calls[1].out
                      right_calls == HitNodeCallsSameRay(self, r, n.right)
                      right_hit == right_calls[1].out
                  IN  <<Called(node, r, -1,
                               IF right_hit # None THEN right_hit ELSE left_hit)>>
                          \o left_calls \o right_calls
             ELSE <<Called(node, r, -1, None)>>

\* bvh.rs 93-119: hit_node with the calls it makes, itself first, then those
\* of the left child, then those of the right child
RECURSIVE HitNodeCalls(_, _, _)
HitNodeCalls(self, r, node) ==
    LET n == self.nodes[node + 1]
    IN  IF n.kind = "Leaf"
        THEN IF Collide(n.aabb, r)
             THEN <<Called(node, r, n.leaf, Hit(self.leaves[n.leaf + 1], r.inner))>>
             ELSE <<Called(node, r, -1, None)>>
        ELSE IF Collide(n.aabb, r)
             THEN LET left_calls == HitNodeCalls(self, r, n.left)
                      left_hit == left_calls[1].out
                      r2 == IF left_hit # None
                            THEN [r EXCEPT !.inner.t_max = left_hit[1].hit.t]
                            ELSE r
                      right_calls == HitNodeCalls(self, r2, n.right)
                      right_hit == right_calls[1].out
                  IN  <<Called(node, r, -1,
                               IF right_hit # None THEN right_hit ELSE left_hit)>>
                          \o left_calls \o right_calls
             ELSE <<Called(node, r, -1, None)>>

(***************************************************************************)
(* One query: a scene is given to Bvh::new, and a ray is sent through the  *)
(* tree and through the plain list of the same primitives.                 *)
(***************************************************************************)
\* the primitives tried: two unit spheres on the z axis, one of them around
\* the origin, and the two triangles of the mesh
Primitives ==
    { Sphere(<<0, 0, -3>>, 1, 0), Sphere(<<0, 0, 0>>, 1, 1),
      Triangle(0, 0), Triangle(3, 0) }

\* the scenes tried: every list of at most MaxPrims primitives
HittablesTried == UNION { [1..n -> Primitives] : n \in 0..MaxPrims }

\* the six directions along an axis
Directions ==
    { <<1, 0, 0>>, <<-1, 0, 0>>, <<0, 1, 0>>, <<0, -1, 0>>, <<0, 0, 1>>, <<0, 0, -1>> }

\* the z of the ray origins: the centre of the sphere around the origin, and
\* its top
OriginHeights == {0, 1}

\* the rays tried: from every point of the grid, along every axis, unbounded
\* or stopping at MaxT
RaysTried ==
    { Ray(<<x, y, z>>, d, 0, t_max) :
        x \in -MaxOrigin..MaxOrigin, y \in -MaxOrigin..MaxOrigin,
        z \in OriginHeights, d \in Directions, t_max \in {MaxT, INFINITY} }

\* no render session runs while a scene is queried
SessionIdle ==
    /\ full_width = 0
    /\ full_height = 0
    /\ tile_width = 0
    /\ tile_height = 0
    /\ num_workers = 0
    /\ seed = [w \in Workers |-> 0]
    /\ job_queue = <<>>
    /\ complete_jobs = <<>>
    /\ queue_lock = 0
    /\ complete_lock = 0
    /\ pc = [w \in Workers |-> "unspawned"]
    /\ job = [w \in Workers |-> <<>>]
    /\ rng = [w \in Workers |-> <<>>]
    /\ mainpc = "idle"
    /\ main_i = 0
    /\ output = <<>>
    /\ initial_tiles = <<>>
    /\ taken = [w \in Workers |-> <<>>]
    /\ run_no = 1
    /\ prev_seed = <<>>
    /\ prev_output = <<>>
    /\ prev_taken = <<>>

InitBvh ==
    /\ SessionIdle
    /\ QueryIdle
    /\ hittables \in HittablesTried
    /\ ray \in RaysTried
    /\ bvh = None
    /\ bvh_pc = "new"
    /\ bvh_hit = <<>>
    /\ list_hit = <<>>

\* a Bvh::new that answers an empty list with a tree of no node
BvhNewOfNothing ==
    /\ bvh_pc = "new"
    /\ IF ContentPanics(hittables)
       THEN bvh_pc' = "panicked" /\ UNCHANGED bvh
       ELSE /\ IF hittables = <<>>
               THEN bvh' = Some([leaves |-> <<>>, nodes |-> <<>>, root |-> 0])
               ELSE \E b \in BvhNewOf(hittables) : bvh' = Some(b)
            /\ bvh_pc' = "built"
    /\ UNCHANGED <<hittables, ray, bvh_hit, list_hit>>
    /\ UNCHANGED schedVars
    /\ UNCHANGED queryVars

\* Bvh::new(hittables): a tree, or a panic on a member without a bounding
\* box or on an empty list
BvhNew ==
    /\ bvh_pc = "new"
    /\ IF ContentPanics(hittables) \/ MakeBvhPanics(Content(hittables))
       THEN bvh_pc' = "panicked" /\ UNCHANGED bvh
       ELSE /\ \E b \in BvhNewOf(hittables) : bvh' = Some(b)
            /\ bvh_pc' = "built"
    /\ UNCHANGED <<hittables, ray, bvh_hit, list_hit>>
    /\ UNCHANGED schedVars
    /\ UNCHANGED queryVars

\* bvh.hit(&ray)
BvhHit ==
    /\ bvh_pc = "built"
    /\ bvh_hit = <<>>
    /\ bvh_hit' = <<BvhHitOf(bvh[1], ray)>>
    /\ UNCHANGED <<hittables, ray, bvh, bvh_pc, list_hit>>
    /\ UNCHANGED schedVars
    /\ UNCHANGED queryVars

\* bvh.hit(&ray), its calls of hit_node followed
BvhHitFollowed ==
    /\ bvh_pc = "built"
    /\ bvh_hit = <<>>
    /\ walk' = HitNodeCalls(bvh[1], Expand(ray), bvh[1].root)
    /\ bvh_hit' = <<walk'[1].out>>
    /\ UNCHANGED <<hittables, ray, bvh, bvh_pc, list_hit>>
    /\ UNCHANGED schedVars
    /\ UNCHANGED <<bbox, hit_out>>
    /\ UNCHANGED traceVars
    /\ UNCHANGED buildVars
    /\ UNCHANGED sampleVars

\* Hittable::List(hittables).hit(&ray)
ListHit ==
    /\ bvh_pc # "idle"
    /\ list_hit = <<>>
    /\ list_hit' = <<HitList(hittables, ray)>>
    /\ UNCHANGED <<hittables, ray, bvh, bvh_pc, bvh_hit>>
    /\ UNCHANGED schedVars
    /\ UNCHANGED queryVars

NextBvh ==
    \/ BvhNew
    \/ BvhHit
    \/ ListHit

SpecBvh == InitBvh /\ [][NextBvh]_vars

\* the same queries, with the traversal of the tree followed
NextWalk ==
    \/ BvhNew
    \/ BvhHitFollowed

SpecWalk == InitBvh /\ [][NextWalk]_vars

\* the construction alone: Bvh::new on every scene tried, no ray sent
InitBvhNew ==
    /\ SessionIdle
    /\ QueryIdle
    /\ hittables \in HittablesTried
    /\ ray = <<>>
    /\ bvh = None
    /\ bvh_pc = "new"
    /\ bvh_hit = <<>>
    /\ list_hit = <<>>

NextBvhNew == BvhNew

SpecBvhNew == InitBvhNew /\ [][NextBvhNew]_vars

(***************************************************************************)
(* make_bvh on its own: the call Bvh::new makes (sort_axis 0) and the      *)
(* calls make_bvh makes of itself down its left spine, where nodes is      *)
(* still empty and sort_axis is 1, 2, 0, ...                               *)
(***************************************************************************)
\* spheres whose centres are in another order on each axis, and a triangle
PrimitivesBuilt ==
    { Sphere(<<0, 0, -3>>, 1, 0), Sphere(<<2, -2, 0>>, 1, 0),
      Sphere(<<-2, 2, 3>>, 1, 0), Triangle(0, 0) }

ScenesBuilt == UNION { [1..n -> PrimitivesBuilt] : n \in 0..MaxBuilt }

InitMakeBvh ==
    /\ SessionIdle
    /\ bbox = <<>>
    /\ hit_out = <<>>
    /\ TraceIdle
    /\ WalkIdle
    /\ SampleIdle
    /\ hittables \in ScenesBuilt
    /\ build_axis \in 0..2
    /\ ray = <<>>
    /\ bvh = None
    /\ bvh_pc = "new"
    /\ bvh_hit = <<>>
    /\ list_hit = <<>>

\* make_bvh(&mut content, sort_axis, &mut nodes) on an empty nodes
MakeBvhCall ==
    /\ bvh_pc = "new"
    /\ IF MakeBvhPanics(Content(hittables))
       THEN bvh_pc' = "panicked" /\ UNCHANGED bvh
       ELSE /\ \E made \in MakeBvh(Content(hittables), build_axis, <<>>) :
                  bvh' = Some([leaves |-> hittables, nodes |-> made.nodes,
                               root |-> made.id])
            /\ bvh_pc' = "built"
    /\ UNCHANGED <<hittables, ray, bvh_hit, list_hit>>
    /\ UNCHANGED schedVars
    /\ UNCHANGED queryVars

NextMakeBvh == MakeBvhCall

SpecMakeBvh == InitMakeBvh /\ [][NextMakeBvh]_vars

(***************************************************************************)
(* Bounding boxes of aggregates: scenes whose members may be lists and     *)
(* trees, given to Bvh::new and to bounding_box.                           *)
(***************************************************************************)
\* the trees that are members: the one Bvh::new builds over the first sphere
BvhsTried == { BvhOf(b) : b \in BvhNewOf(<<Sphere(<<0, 0, -3>>, 1, 0)>>) }

\* what the lists tried are made of: a sphere, a triangle and a tree
ListItems == { Sphere(<<0, 0, -3>>, 1, 0), Triangle(3, 0) } \cup BvhsTried

\* the lists that are members, one of them a list of a list of a tree
ListsTried ==
    { ListOf(l) : l \in UNION { [1..n -> ListItems] : n \in 0..MaxNested } }
        \cup { ListOf(<<ListOf(<<b>>)>>) : b \in BvhsTried }

\* the scenes tried: at most MaxNested members, primitives, lists or trees
NestedTried ==
    UNION { [1..n -> ListItems \cup ListsTried] : n \in 0..MaxNested }

InitBox ==
    /\ SessionIdle
    /\ hittables \in NestedTried
    /\ ray = <<>>
    /\ bvh = None
    /\ bvh_pc = "new"
    /\ bvh_hit = <<>>
    /\ list_hit = <<>>
    /\ bbox = <<>>
    /\ hit_out = <<>>
    /\ TraceIdle
    /\ CallIdle

\* Hittable::List(hittables).bounding_box(&scene_data)
BoundingBoxOfList ==
    /\ bvh_pc # "idle"
    /\ bbox = <<>>
    /\ bbox' = <<[of |-> "List", call |-> BoundingBoxCall(ListOf(hittables))]>>
    /\ UNCHANGED hit_out
    /\ UNCHANGED traceVars
    /\ UNCHANGED callVars
    /\ UNCHANGED sceneVars
    /\ UNCHANGED schedVars

\* Hittable::Bvh(bvh).bounding_box(&scene_data), on the tree Bvh::new built
BoundingBoxOfBuilt ==
    /\ bvh_pc = "built"
    /\ bbox = <<>>
    /\ bbox' = <<[of |-> "Bvh", call |-> BoundingBoxCall(BvhOf(bvh[1]))]>>
    /\ UNCHANGED hit_out
    /\ UNCHANGED traceVars
    /\ UNCHANGED callVars
    /\ UNCHANGED sceneVars
    /\ UNCHANGED schedVars

NextBox ==
    \/ BvhNew
    \/ BoundingBoxOfList
    \/ BoundingBoxOfBuilt

SpecBox == InitBox /\ [][NextBox]_vars

(***************************************************************************)
(* Properties of the tiling and of the scheduler.                          *)
(***************************************************************************)
ImagePixels == {<<x, y>> : x \in 0..(full_width - 1), y \in 0..(full_height - 1)}

\* the places of the tiles of a list at offset o
TilesAt(tiles, o) == {k \in DOMAIN tiles : tiles[k].pixel_offset = o}

\* the pops, by any worker, that took the tile at offset o
PopsOf(o) == {<<w, k>> \in Workers \X (1..Len(initial_tiles)) :
                 k <= Len(taken[w]) /\ taken[w][k] = o}

\* C1: whenever Tile::new returns, every pixel of the image lies in exactly
\* one of the returned tiles and every tile lies inside the image, whether or
\* not the image size is a multiple of the tile size.
C1_TilesPartitionImage ==
    mainpc = "spawn" =>
        /\ \A p \in ImagePixels :
              Cardinality({k \in DOMAIN job_queue : p \in TileRect(job_queue[k])}) = 1
        /\ \A k \in DOMAIN job_queue : TileRect(job_queue[k]) \subseteq ImagePixels

\* a tiling of several rows and columns whose last row and column are clipped
C1_Witness ==
    /\ mainpc = "spawn"
    /\ Len(job_queue) >= 4
    /\ full_width % tile_width # 0
    /\ full_height % tile_height # 0

\* C2: in every interleaving no tile is popped twice, and no two workers
\* hold the same tile.
C2_OneWorkerPerTile ==
    /\ \A k \in DOMAIN initial_tiles :
          Cardinality(PopsOf(initial_tiles[k].pixel_offset)) <= 1
    /\ \A w1, w2 \in Workers :
          (w1 # w2 /\ job[w1] # <<>> /\ job[w2] # <<>>)
              => job[w1][1].pixel_offset # job[w2][1].pixel_offset

\* two workers render at the same time, each its own tile
C2_Witness ==
    /\ pc[1] = "render"
    /\ pc[2] = "render"
    /\ job[1] # <<>>
    /\ job[2] # <<>>

\* C3: once every worker has been joined without a panic, the job queue is
\* empty and each tile of the tiling is exactly once in complete_jobs; when
\* the merge loop has ended each tile was blitted exactly once and no pixel
\* of the output is left at its default.
C3_AllTilesCompleteOnce ==
    /\ mainpc \in {"merge", "save", "done"} =>
          /\ job_queue = <<>>
          /\ Len(complete_jobs) = Len(initial_tiles)
          /\ \A k \in DOMAIN initial_tiles :
                Cardinality(TilesAt(complete_jobs, initial_tiles[k].pixel_offset)) = 1
    /\ mainpc \in {"save", "done"} =>
          /\ \A k \in DOMAIN initial_tiles :
                Cardinality({i \in TilesAt(complete_jobs, initial_tiles[k].pixel_offset) :
                                i < main_i}) = 1
          /\ \A k \in DOMAIN output[1].data : output[1].data[k] # DefaultPixel

\* a finished render in which both workers rendered tiles
C3_Witness ==
    /\ mainpc = "done"
    /\ Len(initial_tiles) >= 3
    /\ taken[1] # <<>>
    /\ taken[2] # <<>>

\* C4: under fair scheduling, when no tile render panics, a render that has
\* its tiles runs to the end of the merge: all workers leave their loop, main
\* joins them and blits every tile, and comes to save the image.
C4_RenderCompletes ==
    (mainpc = "spawn")
        ~> (/\ mainpc = "save"
            /\ main_i = Len(complete_jobs) + 1
            /\ Len(complete_jobs) = Len(initial_tiles)
            /\ \A w \in 1..num_workers : pc[w] = "exited")

\* a render of more tiles than workers has been merged
C4_Witness ==
    /\ mainpc = "save"
    /\ num_workers = 2
    /\ Len(complete_jobs) > 2
    /\ \A w \in 1..num_workers : pc[w] = "exited"

\* C5: after a worker has panicked while rendering, main never reaches the
\* merge: no output image is created or saved.
C5_PanicStopsRender ==
    (\E w \in Workers : pc[w] = "panicked") =>
        /\ mainpc \notin {"merge", "save", "done"}
        /\ output = <<>>

\* a worker panicked after tiles were completed, and main failed on its join
C5_Witness ==
    /\ mainpc = "panicked"
    /\ \E w \in Workers : pc[w] = "panicked"
    /\ complete_jobs # <<>>

\* C6 as stated: two finished renders with the same seeds have the same image,
\* whatever the interleaving.
C6_SameSeedsSameImage ==
    (run_no = 2 /\ mainpc = "done" /\ seed = prev_seed) => output = prev_output

\* C6 amended: two finished renders with the same seeds in which every worker
\* popped the same tiles in the same order have the same image.
C6_SameSeedsSameOrderSameImage ==
    (run_no = 2 /\ mainpc = "done" /\ seed = prev_seed /\ taken = prev_taken)
        => output = prev_output

\* two renders by two workers that both took tiles, in the same order
C6_Witness ==
    /\ run_no = 2
    /\ mainpc = "done"
    /\ seed = prev_seed
    /\ taken = prev_taken
    /\ taken[1] # <<>>
    /\ taken[2] # <<>>
    /\ Len(initial_tiles) = 3

(***************************************************************************)
(* Properties of the bounding volume hierarchy.                            *)
(***************************************************************************)
\* the nodes of the tree, by their 0-based ids
NodeIds(b) == 0..(Len(b.nodes) - 1)
NodeAt(b, k) == b.nodes[k + 1]

\* the ids of the Leaf nodes in the subtree of node k
RECURSIVE LeavesUnder(_, _)
LeavesUnder(b, k) ==
    IF NodeAt(b, k).kind = "Leaf" THEN {k}
    ELSE LeavesUnder(b, NodeAt(b, k).left) \cup LeavesUnder(b, NodeAt(b, k).right)

\* the least and the greatest number of a non-empty finite set
Least(S) == CHOOSE x \in S : \A y \in S : x <= y
Greatest(S) == CHOOSE x \in S : \A y \in S : x >= y

\* the smallest box that holds every box of a non-empty set
Hull(boxes) ==
    AABB([a \in 1..3 |-> Least({bb.min[a] : bb \in boxes})],
         [a \in 1..3 |-> Greatest({bb.max[a] : bb \in boxes})])

\* both miss, or both hit with the same t
SameT(x, y) ==
    \/ x = None /\ y = None
    \/ x # None /\ y # None /\ x[1].hit.t = y[1].hit.t

\* C8: for every non-empty list of primitives and every ray, the hit through
\* the tree of Bvh::new and the hit through the plain list agree: both miss,
\* or both hit with the same t
C8_BvhHitEqualsListHit ==
    (bvh_pc = "built" /\ bvh_hit # <<>> /\ list_hit # <<>>)
        => SameT(bvh_hit[1], list_hit[1])

\* C9: in every tree built by Bvh::new, the box of a Branch is the union of
\* the boxes of the Leaf nodes of its subtree, and so is the box of the root
C9_BranchBoxIsUnionOfLeaves ==
    bvh_pc = "built" =>
        /\ \A k \in NodeIds(bvh[1]) :
              NodeAt(bvh[1], k).kind = "Branch" =>
                  NodeAt(bvh[1], k).aabb
                      = Hull({NodeAt(bvh[1], j).aabb : j \in LeavesUnder(bvh[1], k)})
        /\ NodeAt(bvh[1], bvh[1].root).aabb
              = Hull({NodeAt(bvh[1], j).aabb :
                         j \in {i \in NodeIds(bvh[1]) : NodeAt(bvh[1], i).kind = "Leaf"}})

\* a tree of three primitives or more: its root is a Branch over a Branch,
\* and is larger than each of its two children
C9_Witness ==
    /\ bvh_pc = "built"
    /\ NodeAt(bvh[1], bvh[1].root).kind = "Branch"
    /\ NodeAt(bvh[1], NodeAt(bvh[1], bvh[1].root).right).kind = "Branch"
    /\ NodeAt(bvh[1], bvh[1].root).aabb
          # NodeAt(bvh[1], NodeAt(bvh[1], bvh[1].root).left).aabb
    /\ NodeAt(bvh[1], bvh[1].root).aabb
          # NodeAt(bvh[1], NodeAt(bvh[1], bvh[1].root).right).aabb

\* C10: in every tree built by Bvh::new over n primitives, each index
\* 0..n-1 is the leaf id of exactly one Leaf node, and the box of that Leaf
\* is the bounding box of that primitive
C10_EachPrimitiveHasItsLeaf ==
    bvh_pc = "built" =>
        /\ bvh[1].leaves = hittables
        /\ \A k \in NodeIds(bvh[1]) :
              NodeAt(bvh[1], k).kind = "Leaf" =>
                  NodeAt(bvh[1], k).leaf \in 0..(Len(hittables) - 1)
        /\ \A id \in 0..(Len(hittables) - 1) :
              /\ Cardinality({k \in NodeIds(bvh[1]) :
                                 /\ NodeAt(bvh[1], k).kind = "Leaf"
                                 /\ NodeAt(bvh[1], k).leaf = id}) = 1
              /\ \A k \in NodeIds(bvh[1]) :
                    (NodeAt(bvh[1], k).kind = "Leaf" /\ NodeAt(bvh[1], k).leaf = id)
                        => NodeAt(bvh[1], k).aabb = BoundingBox(hittables[id + 1])

\* a tree of three primitives whose first leaf is not primitive 0: the sort
\* has moved the pairs
C10_Witness ==
    /\ bvh_pc = "built"
    /\ Len(hittables) >= 3
    /\ NodeAt(bvh[1], 0).kind = "Leaf"
    /\ NodeAt(bvh[1], 0).leaf # 0
    /\ BoundingBox(hittables[1]) # BoundingBox(hittables[NodeAt(bvh[1], 0).leaf + 1])

\* a tree somewhere inside the hittable
RECURSIVE ContainsBvh(_)
ContainsBvh(x) ==
    IF x.kind = "Bvh" THEN TRUE
    ELSE IF x.kind = "List" THEN \E i \in 1..Len(x.list) : ContainsBvh(x.list[i])
    ELSE FALSE

\* C11: the bounding box of a Hittable::Bvh is never returned, the call
\* panics; so does the bounding box of a List with a Bvh inside, and so does
\* Bvh::new over a list with a Bvh inside, which builds no tree
C11_BoundingBoxOfBvhIsFatal ==
    /\ (bbox # <<>> /\ bbox[1].of = "Bvh") => bbox[1].call = Panicked
    /\ (bbox # <<>> /\ bbox[1].of = "List"
            /\ \E i \in 1..Len(hittables) : ContainsBvh(hittables[i]))
          => bbox[1].call = Panicked
    /\ (\E i \in 1..Len(hittables) : ContainsBvh(hittables[i]))
          => (bvh = None /\ bvh_pc \in {"new", "panicked"})

\* a scene with a tree inside a list: Bvh::new has panicked on it, and so has
\* the bounding box of the list of its members
C11_Witness ==
    /\ \E i \in 1..Len(hittables) :
          hittables[i].kind = "List" /\ ContainsBvh(hittables[i])
    /\ bvh_pc = "panicked"
    /\ bbox # <<>>
    /\ bbox[1].of = "List"
    /\ bbox[1].call = Panicked

(***************************************************************************)
(* The hit tests alone: every member of a scene, and the scene as a list,  *)
(* against rays of every interval [t_min, t_max].                          *)
(***************************************************************************)
\* the scenes hit: at most MaxMembers primitives
ScenesHit == UNION { [1..n -> Primitives] : n \in 0..MaxMembers }

\* the rays sent: from every point of the grid, along every axis, with t_min
\* in 0..MaxT and t_max in t_min..MaxT or unbounded
RaysHit ==
    { Ray(<<x, y, z>>, d, t_min, t_max) :
        x \in -MaxOrigin..MaxOrigin, y \in -MaxOrigin..MaxOrigin,
        z \in OriginHeights, d \in Directions,
        t_min \in 0..MaxT, t_max \in 0..MaxT \cup {INFINITY} }

InitHit ==
    /\ SessionIdle
    /\ bbox = <<>>
    /\ TraceIdle
    /\ CallIdle
    /\ hittables \in ScenesHit
    /\ ray \in { r \in RaysHit : r.t_min <= r.t_max }
    /\ bvh = None
    /\ bvh_pc = "new"
    /\ bvh_hit = <<>>
    /\ list_hit = <<>>
    /\ hit_out = <<>>

\* hittable.rs 18-25: x.hit(&ray, &scene_data) for every member x of the scene
HitMembers ==
    /\ bvh_pc = "new"
    /\ hit_out = <<>>
    /\ hit_out' = Some([i \in 1..Len(hittables) |-> Hit(hittables[i], ray)])
    /\ UNCHANGED bbox
    /\ UNCHANGED traceVars
    /\ UNCHANGED callVars
    /\ UNCHANGED sceneVars
    /\ UNCHANGED schedVars

NextHit ==
    \/ HitMembers
    \/ ListHit

SpecHit == InitHit /\ [][NextHit]_vars

(***************************************************************************)
(* Path tracing (render.rs, material.rs, texture.rs).  A colour is the     *)
(* triple of its red, green and blue channels, as the normal that          *)
(* Emit::Normal returns for one and PathTraceOutput.normal require; each   *)
(* channel is an integer number of 1 / Unit, and Unit has enough decimals  *)
(* for every product of the paths tried to be exact.  The scenes traced    *)
(* have even coordinates, so that every intersection parameter is even     *)
(* and RAY_EPSILON lies strictly between 0 and the least positive one.     *)
(***************************************************************************)
\* utility.rs 29: below every positive intersection parameter of the scenes
RAY_EPSILON == 1

RECURSIVE Pow10(_)
Pow10(n) == IF n = 0 THEN 1 ELSE 10 * Pow10(n - 1)

\* the value of the channel 1.0
Unit == 100 * Pow10(MaxDepth)

\* the channel that is NaN and the channel that is a finite real not
\* computed here, both beyond every channel of a path of MaxDepth calls
ChannelNaN == 1000 * Unit
ChannelUnknown == 2000 * Unit

\* the channel of a coordinate
ChannelOf(x) ==
    IF x = NAN THEN ChannelNaN ELSE IF x = UNKNOWN THEN ChannelUnknown ELSE Unit * x

\* f64 a + b on channels
ChannelAdd(a, b) ==
    IF a = ChannelNaN \/ b = ChannelNaN THEN ChannelNaN
    ELSE IF a = ChannelUnknown \/ b = ChannelUnknown THEN ChannelUnknown
    ELSE a + b

\* f64 a * b on channels: a * b / Unit, computed in two halves that stay
\* below 2^31
ChannelMul(a, b) ==
    LET tenth == Unit \div 10
        high == (a \div tenth) * b
    IN  IF a = ChannelNaN \/ b = ChannelNaN THEN ChannelNaN
        ELSE IF a = 0 \/ b = 0 THEN 0
        ELSE IF a = ChannelUnknown \/ b = ChannelUnknown THEN ChannelUnknown
        ELSE high \div 10 + ((high % 10) * tenth + (a % tenth) * b) \div Unit

\* utility.rs 191-193, with r, g and b in hundredths
Rgb(r, g, b) == <<r * (Unit \div 100), g * (Unit \div 100), b * (Unit \div 100)>>

\* Color + Color, Real * Color, Color::component_mul
ColorAdd(a, b) ==
    <<ChannelAdd(a[1], b[1]), ChannelAdd(a[2], b[2]), ChannelAdd(a[3], b[3])>>
ColorScale(t, a) == <<ChannelMul(t, a[1]), ChannelMul(t, a[2]), ChannelMul(t, a[3])>>
ColorMul(a, b) ==
    <<ChannelMul(a[1], b[1]), ChannelMul(a[2], b[2]), ChannelMul(a[3], b[3])>>

\* material.rs 16-21, 37-41, 59-64, 82-86: the variants
ScatterNone == [kind |-> "None"]
Lambert == [kind |-> "Lambert"]
Metal(fuzziness) == [kind |-> "Metal", fuzziness |-> fuzziness]
BlackBody == [kind |-> "BlackBody"]
WhiteBody == [kind |-> "WhiteBody"]
Albedo(color) == [kind |-> "Albedo", color |-> color]
AlbedoMap(tid) == [kind |-> "AlbedoMap", tid |-> tid]
Material(scatter, absorb, emit) ==
    [scatter |-> scatter, absorb |-> absorb, emit |-> emit]

\* texture.rs 7-13: the variants sampled here
Missing == [kind |-> "Missing"]
Solid(color) == [kind |-> "Solid", color |-> color]
Checker(odd, even) == [kind |-> "Checker", odd |-> odd, even |-> even]

\* render.rs 12: the texture_table of the scene data; TextureId(3) names a
\* checker whose even texture, TextureId(7), is outside the table
TextureTable ==
    << Solid(Rgb(50, 50, 50)),
       Missing,
       Checker(0, 1),
       Checker(0, 7) >>

\* render.rs 11: the material_table of the scene data; MaterialId(5) reads
\* TextureId(4), outside the texture table
MaterialTable ==
    << Material(Lambert, Albedo(Rgb(80, 80, 0)), "None"),
       Material(Metal(0), Albedo(Rgb(50, 50, 50)), "None"),
       Material(ScatterNone, BlackBody, "Normal"),
       Material(Lambert, AlbedoMap(0), "None"),
       Material(Lambert, AlbedoMap(2), "None"),
       Material(Lambert, AlbedoMap(4), "None"),
       Material(ScatterNone, AlbedoMap(3), "None"),
       Material(Lambert, WhiteBody, "Normal") >>

\* Vec indexing, table[id.to_index()]: a panic when the index is outside
OutOfBounds(table, id) == id >= Len(table)

\* render.rs 105, material.rs 72, hittable.rs 67: the entry of a table that
\* an identifier names
MaterialAt(id) ==
    IF OutOfBounds(MaterialTable, id) THEN Panicked ELSE Returned(MaterialTable[id + 1])
\* a lookup that substitutes Texture::Missing for an entry that is not there
TextureAtOrMissing(id) ==
    IF OutOfBounds(TextureTable, id) THEN Returned(Missing) ELSE Returned(TextureTable[id + 1])
TextureAt(id) ==
    IF OutOfBounds(TextureTable, id) THEN Panicked ELSE Returned(TextureTable[id + 1])
MeshAt(id) ==
    IF OutOfBounds(MeshTable, id) THEN Panicked ELSE Returned(MeshTable[id + 1])

RECURSIVE Sample(_, _)

\* texture.rs 32-41; the coordinates of a position are integers, their own
\* floors, or NaN, of which the sum is NaN and its remainder differs from 0
SampleChecker(hit, odd, even) ==
    LET p == hit.position
        chosen == IF p = NaNs THEN odd
                  ELSE IF (p[1] + p[2] + p[3]) % 2 = 0 THEN even ELSE odd
    IN  IF TextureAt(chosen) = Panicked THEN Panicked
        ELSE Sample(TextureAt(chosen)[1], hit)

\* texture.rs 16-27
Sample(texture, hit) ==
    IF texture.kind = "Missing" THEN Returned(Rgb(0, 0, 0))
    ELSE IF texture.kind = "Solid" THEN Returned(texture.color)
    ELSE SampleChecker(hit, texture.odd, texture.even)

\* material.rs 45-53; the direction of a ray is a unit vector along an
\* axis, or NaN, or not computed, and so is the sky it shows
EmitEvaluate(emit, incident, hit) ==
    IF emit = "None" THEN Rgb(0, 0, 0)
    ELSE IF emit = "Normal"
    THEN <<ChannelOf(hit.normal[1]), ChannelOf(hit.normal[2]), ChannelOf(hit.normal[3])>>
    ELSE IF incident.direction = NaNs THEN <<ChannelNaN, ChannelNaN, ChannelNaN>>
    ELSE IF incident.direction = Unknowns THEN <<ChannelUnknown, ChannelUnknown, ChannelUnknown>>
    ELSE LET magnitude == Sqrt(NormSquared(incident.direction))
             t == (Unit \div 2) * (FDiv(incident.direction[2], magnitude) + 1)
         IN  ColorAdd(ColorScale(Unit - t, Rgb(100, 100, 100)),
                      ColorScale(t, Rgb(50, 70, 100)))

\* material.rs 67-74
AbsorbEvaluate(absorb, hit) ==
    IF absorb.kind = "BlackBody" THEN Returned(Rgb(0, 0, 0))
    ELSE IF absorb.kind = "WhiteBody" THEN Returned(Rgb(100, 100, 100))
    ELSE IF absorb.kind = "Albedo" THEN Returned(absorb.color)
    ELSE IF TextureAt(absorb.tid) = Panicked THEN Panicked
    ELSE Sample(TextureAt(absorb.tid)[1], hit)

\* material.rs 67-74 at any hit: where the position is not computed, the
\* floors of its coordinates have an even sum or an odd one, as those of
\* <<0, 0, 0>> and of <<1, 0, 0>>
AbsorbAny(absorb, hit) ==
    IF hit.position = Unknowns
    THEN { AbsorbEvaluate(absorb, [hit EXCEPT !.position = p]) :
             p \in { <<0, 0, 0>>, <<1, 0, 0>> } }
    ELSE { AbsorbEvaluate(absorb, hit) }

\* utility.rs 100-102
Reflect(incident, normal) ==
    Sub(incident, Scale(2 * Dot(incident, normal), normal))

\* material.rs 116, randomness.rs 58-73: (normal + u).normalize() for every
\* u that the sample of UnitSphere can be.  u is any unit vector but
\* <<0, 0, -1>>, which needs s = 1 where the loop ends on s < 1.  For a
\* normal along an axis, u = normal gives the normal itself, u = -normal
\* gives 0 / 0 in every coordinate, and every other u a unit vector on the
\* side of the normal that is along no axis and is not computed here; a
\* normal that is not computed gives the last two, and a NaN normal gives NaN
LambertDirections(normal) ==
    IF normal = NaNs THEN { NaNs }
    ELSE IF normal = Unknowns THEN { NaNs, Unknowns }
    ELSE (IF normal \in Directions \ { <<0, 0, -1>> } THEN { normal } ELSE {})
         \cup (IF normal \in Directions \ { <<0, 0, 1>> } THEN { NaNs } ELSE {})
         \cup { Unknowns }

\* material.rs 108-123.  The test normal.dot(direction) > 0.0 is false on a
\* NaN and goes either way on vectors that are not computed
EvaluateLambert(incident, hit) ==
    LET scattered == { Some(Ray(hit.position, d, RAY_EPSILON, INFINITY)) :
                         d \in LambertDirections(hit.normal) }
    IN  IF hit.normal = NaNs \/ incident.direction = NaNs THEN scattered
        ELSE IF hit.normal = Unknowns \/ incident.direction = Unknowns
        THEN { None } \cup scattered
        ELSE IF Dot(hit.normal, incident.direction) > 0 THEN { None }
        ELSE scattered

\* material.rs 125-145, for fuzziness = 0: the sample of the unit ball is
\* multiplied by 0 and the reflected direction is already a unit vector.
\* Both tests are false on a NaN, which the reflection then is, and go
\* either way on vectors that are not computed
EvaluateMetal(incident, hit, fuzziness) ==
    LET reflect_dir == Normalize(Reflect(incident.direction, hit.normal))
    IN  IF hit.normal = NaNs \/ incident.direction = NaNs
        THEN { Some(Ray(hit.position, NaNs, RAY_EPSILON, INFINITY)) }
        ELSE IF hit.normal = Unknowns \/ incident.direction = Unknowns
        THEN { None, Some(Ray(hit.position, Unknowns, RAY_EPSILON, INFINITY)) }
        ELSE IF Dot(hit.normal, incident.direction) > 0 THEN { None }
        ELSE IF Dot(hit.normal, reflect_dir) < 0 THEN { None }
        ELSE { Some(Ray(hit.position, reflect_dir, RAY_EPSILON, INFINITY)) }

\* material.rs 23-30: the Option<Ray> values the scattering may give
ScatterEvaluate(scatter, incident, hit) ==
    IF scatter.kind = "None" THEN { None }
    ELSE IF scatter.kind = "Lambert" THEN EvaluateLambert(incident, hit)
    ELSE EvaluateMetal(incident, hit, scatter.fuzziness)

\* material.rs 97-103: the MaterialOutput values, or a panic
MaterialEvaluate(material, incident, hit) ==
    { IF a = Panicked THEN Panicked
      ELSE Returned([scatter |-> s,
                     absorb |-> a[1],
                     emit |-> EmitEvaluate(material.emit, incident, hit)]) :
        s \in ScatterEvaluate(material.scatter, incident, hit),
        a \in AbsorbAny(material.absorb, hit) }

RECURSIVE HitPanics(_, _)

\* hittable.rs 18-25, 67, mesh.rs 26-28: whether a hit test stops on an index
\* outside the mesh table, the indices or the vertices; a list tests every
\* member, and a tree holds only what bounding_box accepted
HitPanics(x, r) ==
    IF x.kind = "Triangle"
    THEN \/ MeshAt(x.mesh) = Panicked
         \/ LET mesh == MeshAt(x.mesh)[1]
            IN  \/ x.triangle + 3 > Len(mesh.indices)
                \/ \E k \in 1..3 :
                     OutOfBounds(mesh.vertices, mesh.indices[x.triangle + k])
    ELSE IF x.kind = "List"
         THEN \E i \in 1..Len(x.list) : HitPanics(x.list[i], r)
    ELSE FALSE

\* hittable.rs 62, 107: the material a hit of the primitive x comes with
HitMaterial(x) ==
    IF x.kind = "Sphere" THEN x.material ELSE MeshTable[x.mesh + 1].material

RECURSIVE SceneHit(_, _)

\* hittable.rs 110-120 on the primitives of a scene and a ray of any
\* direction, once no member panics: what Hittable::List(list).hit(&ray) may
\* return.  With a direction along an axis it is computed.  With a NaN
\* direction every test of hit_sphere (delta <= 0.0, t < t_min, t > t_max)
\* and of hit_triangle (det.abs() < SMOL, t < t_min, t > t_max, u, v,
\* w < 0.0) is false, so every member returns a hit with NaN for t, position
\* and normal, and the list returns that of its last member.  With a
\* direction that is not computed the tests go either way: every member may
\* be the one struck, at a t, a position and a normal that are not computed
\* either, and the ray may leave the scene
SceneHit(list, r) ==
    IF r.direction = NaNs
    THEN { IF list = <<>> THEN None
           ELSE Some(MakeHit(NAN, NaNs, NaNs, HitMaterial(list[Len(list)]))) }
    ELSE IF r.direction = Unknowns
    THEN { None }
         \cup { Some(MakeHit(UNKNOWN, Unknowns, Unknowns, HitMaterial(list[i]))) :
                  i \in 1..Len(list) }
    ELSE { Hit(ListOf(list), r) }

\* the material identifiers tried: those of the table and the first outside
MaterialsTried == 0..Len(MaterialTable)

\* the primitives of the scenes traced: two spheres facing each other across
\* the origin, each with every material identifier tried, and triangles of
\* the mesh table, beyond the indices of a mesh and of a mesh outside the
\* table
SpheresTraced ==
    { Sphere(c, 2, m) : c \in { <<0, 0, -4>>, <<0, 0, 4>> }, m \in MaterialsTried }
TrianglesTraced ==
    { Triangle(0, 0), Triangle(0, 1), Triangle(6, 0), Triangle(0, Len(MeshTable)) }

\* the scenes traced: at most MaxScene primitives
ScenesTraced ==
    UNION { [1..n -> SpheresTraced \cup TrianglesTraced] : n \in 0..MaxScene }

\* camera.rs 30-36, render.rs 45-51: the rays of a camera at the origin
RaysTraced == { Ray(<<0, 0, 0>>, d, RAY_EPSILON, INFINITY) : d \in Directions }

\* the backgrounds that read nothing of the hit at infinity
BackgroundsTried == { "None", "SkyBackground" }

InitTrace ==
    /\ SessionIdle
    /\ CallIdle
    /\ bbox = <<>>
    /\ hit_out = <<>>
    /\ hittables \in ScenesTraced
    /\ ray \in RaysTraced
    /\ bvh = None
    /\ bvh_pc = "idle"
    /\ bvh_hit = <<>>
    /\ list_hit = <<>>
    /\ depth \in 0..MaxDepth
    /\ background \in BackgroundsTried
    /\ trace_pc = "call"
    /\ trace_ray = <<>>
    /\ trace_depth = 0
    /\ frames = <<>>
    /\ trace_color = <<>>
    /\ trace_first = <<>>
    /\ trace_out = <<>>
    /\ visited = <<>>
    /\ reached = <<>>
    /\ hits_asked = 0
    /\ evaluated = 0

\* a trace_path without its assertion, which answers black to a depth of 0
TracePathBlackAtZero ==
    /\ trace_pc = "call"
    /\ IF depth >= 1
       THEN /\ trace_pc' = "first"
            /\ trace_ray' = ray
            /\ trace_depth' = depth
            /\ UNCHANGED trace_out
       ELSE /\ trace_pc' = "returned"
            /\ trace_out' = Some([final_color |-> Rgb(0, 0, 0),
                                  normal |-> <<0, 0, 0>>, hit |-> FALSE])
            /\ UNCHANGED <<trace_ray, trace_depth>>
    /\ UNCHANGED <<depth, background, frames, trace_color, trace_first,
                   visited, reached, evaluated>>
    /\ UNCHANGED hits_asked
    /\ UNCHANGED <<bbox, hit_out>>
    /\ UNCHANGED callVars
    /\ UNCHANGED sceneVars
    /\ UNCHANGED schedVars

\* render.rs 94-99: trace_path(&scene, &ray, depth, ...), the scene being
\* Hittable::List(hittables)
TracePath ==
    /\ trace_pc = "call"
    /\ IF depth >= 1
       THEN /\ trace_pc' = "first"
            /\ trace_ray' = ray
            /\ trace_depth' = depth
       ELSE /\ trace_pc' = "panicked"
            /\ UNCHANGED <<trace_ray, trace_depth>>
    /\ UNCHANGED <<depth, background, frames, trace_color, trace_first,
                   trace_out, visited, reached, evaluated>>
    /\ UNCHANGED hits_asked
    /\ UNCHANGED <<bbox, hit_out>>
    /\ UNCHANGED callVars
    /\ UNCHANGED sceneVars
    /\ UNCHANGED schedVars

\* a bounce that takes two off the depth left
TraceOnHitTakesTwo(found) ==
    IF MaterialAt(found.material) = Panicked
    THEN /\ trace_pc' = "panicked"
         /\ UNCHANGED <<trace_ray, trace_depth, frames, trace_color, visited,
                        evaluated>>
    ELSE /\ evaluated' = evaluated + 1
         /\ \E out \in MaterialEvaluate(MaterialAt(found.material)[1], trace_ray, found.hit) :
              IF out = Panicked
              THEN /\ trace_pc' = "panicked"
                   /\ UNCHANGED <<trace_ray, trace_depth, frames, trace_color, visited>>
              ELSE IF out[1].scatter = None
              THEN /\ trace_pc' = "unwind"
                   /\ trace_color' = ColorAdd(out[1].emit, Rgb(0, 0, 0))
                   /\ visited' = Append(visited, out[1].absorb)
                   /\ UNCHANGED <<trace_ray, trace_depth, frames>>
              ELSE /\ trace_pc' = "continue"
                   /\ trace_ray' = out[1].scatter[1]
                   /\ trace_depth' = IF trace_depth >= 2 THEN trace_depth - 2 ELSE 0
                   /\ frames' = Append(frames, [emit |-> out[1].emit,
                                                absorb |-> out[1].absorb])
                   /\ visited' = Append(visited, out[1].absorb)
                   /\ UNCHANGED trace_color

\* render.rs 105-116, 132-142: the scene is hit; the material is evaluated,
\* and either the path ends on the emitted colour or the scattered ray is
\* traced with one bounce less, emit + absorb * (what it returns) pending
TraceOnHit(found) ==
    IF MaterialAt(found.material) = Panicked
    THEN /\ trace_pc' = "panicked"
         /\ UNCHANGED <<trace_ray, trace_depth, frames, trace_color, visited,
                        evaluated>>
    ELSE /\ evaluated' = evaluated + 1
         /\ \E out \in MaterialEvaluate(MaterialAt(found.material)[1], trace_ray, found.hit) :
              IF out = Panicked
              THEN /\ trace_pc' = "panicked"
                   /\ UNCHANGED <<trace_ray, trace_depth, frames, trace_color, visited>>
              ELSE IF out[1].scatter = None
              THEN /\ trace_pc' = "unwind"
                   /\ trace_color' = ColorAdd(out[1].emit, Rgb(0, 0, 0))
                   /\ visited' = Append(visited, out[1].absorb)
                   /\ UNCHANGED <<trace_ray, trace_depth, frames>>
              ELSE /\ trace_pc' = "continue"
                   /\ trace_ray' = out[1].scatter[1]
                   /\ trace_depth' = trace_depth - 1
                   /\ frames' = Append(frames, [emit |-> out[1].emit,
                                                absorb |-> out[1].absorb])
                   /\ visited' = Append(visited, out[1].absorb)
                   /\ UNCHANGED trace_color

\* render.rs 118, 144: the background is evaluated on the ray that left the
\* scene
TraceOnMiss ==
    /\ trace_pc' = "unwind"
    /\ trace_color' = EmitEvaluate(background, trace_ray, None)
    /\ reached' = Some(EmitEvaluate(background, trace_ray, None))
    /\ UNCHANGED <<trace_ray, trace_depth, frames, visited, evaluated>>

\* render.rs 102-122: trace_path_first
TracePathFirst ==
    /\ trace_pc = "first"
    /\ IF HitPanics(ListOf(hittables), trace_ray)
       THEN /\ trace_pc' = "panicked"
            /\ UNCHANGED <<trace_ray, trace_depth, frames, trace_color, trace_first,
                           visited, reached, evaluated>>
       ELSE \E found \in SceneHit(hittables, trace_ray) :
                IF found # None
                THEN /\ TraceOnHit(found[1])
                     /\ trace_first' = Some([normal |-> found[1].hit.normal, hit |-> TRUE])
                     /\ UNCHANGED reached
                ELSE /\ TraceOnMiss
                     /\ trace_first' = Some([normal |-> <<0, 0, 0>>, hit |-> FALSE])
    /\ UNCHANGED <<depth, background, trace_out>>
    /\ hits_asked' = hits_asked + 1
    /\ UNCHANGED <<bbox, hit_out>>
    /\ UNCHANGED callVars
    /\ UNCHANGED sceneVars
    /\ UNCHANGED schedVars

\* a trace_path_continue that answers the background when no depth is left
TracePathContinueToBackground ==
    /\ trace_pc = "continue"
    /\ IF trace_depth = 0
       THEN TraceOnMiss
       ELSE IF HitPanics(ListOf(hittables), trace_ray)
       THEN /\ trace_pc' = "panicked"
            /\ UNCHANGED <<trace_ray, trace_depth, frames, trace_color, visited, reached, evaluated>>
       ELSE \E found \in SceneHit(hittables, trace_ray) :
                IF found # None
                THEN TraceOnHit(found[1]) /\ UNCHANGED reached
                ELSE TraceOnMiss
    /\ UNCHANGED <<depth, background, trace_first, trace_out>>
    /\ hits_asked' = IF trace_depth = 0 THEN hits_asked ELSE hits_asked + 1
    /\ UNCHANGED <<bbox, hit_out>>
    /\ UNCHANGED callVars
    /\ UNCHANGED sceneVars
    /\ UNCHANGED schedVars

\* a trace_path_continue that looks at its depth after it has hit the scene
TracePathContinueAsksFirst ==
    /\ trace_pc = "continue"
    /\ IF HitPanics(ListOf(hittables), trace_ray)
       THEN /\ trace_pc' = "panicked"
            /\ UNCHANGED <<trace_ray, trace_depth, frames, trace_color, visited, reached, evaluated>>
       ELSE IF trace_depth = 0
       THEN /\ trace_pc' = "unwind"
            /\ trace_color' = Rgb(0, 0, 0)
            /\ UNCHANGED <<trace_ray, trace_depth, frames, visited, reached, evaluated>>
       ELSE \E found \in SceneHit(hittables, trace_ray) :
                IF found # None
                THEN TraceOnHit(found[1]) /\ UNCHANGED reached
                ELSE TraceOnMiss
    /\ UNCHANGED <<depth, background, trace_first, trace_out>>
    /\ hits_asked' = hits_asked + 1
    /\ UNCHANGED <<bbox, hit_out>>
    /\ UNCHANGED callVars
    /\ UNCHANGED sceneVars
    /\ UNCHANGED schedVars

\* render.rs 125-146: trace_path_continue
TracePathContinue ==
    /\ trace_pc = "continue"
    /\ IF trace_depth = 0
       THEN /\ trace_pc' = "unwind"
            /\ trace_color' = Rgb(0, 0, 0)
            /\ UNCHANGED <<trace_ray, trace_depth, frames, visited, reached, evaluated>>
       ELSE IF HitPanics(ListOf(hittables), trace_ray)
       THEN /\ trace_pc' = "panicked"
            /\ UNCHANGED <<trace_ray, trace_depth, frames, trace_color, visited, reached, evaluated>>
       ELSE \E found \in SceneHit(hittables, trace_ray) :
                IF found # None
                THEN TraceOnHit(found[1]) /\ UNCHANGED reached
                ELSE TraceOnMiss
    /\ UNCHANGED <<depth, background, trace_first, trace_out>>
    /\ hits_asked' = IF trace_depth = 0 THEN hits_asked ELSE hits_asked + 1
    /\ UNCHANGED <<bbox, hit_out>>
    /\ UNCHANGED callVars
    /\ UNCHANGED sceneVars
    /\ UNCHANGED schedVars

\* a return in which the caller forgets to multiply by its absorption
TraceReturnUnabsorbed ==
    /\ trace_pc = "unwind"
    /\ IF frames = <<>>
       THEN /\ trace_pc' = "returned"
            /\ trace_out' = Some([final_color |-> trace_color,
                                  normal |-> trace_first[1].normal,
                                  hit |-> trace_first[1].hit])
            /\ UNCHANGED <<frames, trace_color>>
       ELSE /\ trace_color' = ColorAdd(frames[Len(frames)].emit, trace_color)
            /\ frames' = SubSeq(frames, 1, Len(frames) - 1)
            /\ UNCHANGED <<trace_pc, trace_out>>
    /\ UNCHANGED <<depth, background, trace_ray, trace_depth, trace_first,
                   visited, reached, evaluated>>
    /\ UNCHANGED hits_asked
    /\ UNCHANGED <<bbox, hit_out>>
    /\ UNCHANGED callVars
    /\ UNCHANGED sceneVars
    /\ UNCHANGED schedVars

\* render.rs 107-114, 134-141: a call returns to the one that made it, which
\* adds its emitted colour to the visited share of what it received; the
\* outermost call returns the PathTraceOutput (render.rs 115, 120)
TraceReturn ==
    /\ trace_pc = "unwind"
    /\ IF frames = <<>>
       THEN /\ trace_pc' = "returned"
            /\ trace_out' = Some([final_color |-> trace_color,
                                  normal |-> trace_first[1].normal,
                                  hit |-> trace_first[1].hit])
            /\ UNCHANGED <<frames, trace_color>>
       ELSE /\ trace_color' = ColorAdd(frames[Len(frames)].emit,
                                 ColorMul(frames[Len(frames)].absorb, trace_color))
            /\ frames' = SubSeq(frames, 1, Len(frames) - 1)
            /\ UNCHANGED <<trace_pc, trace_out>>
    /\ UNCHANGED <<depth, background, trace_ray, trace_depth, trace_first,
                   visited, reached, evaluated>>
    /\ UNCHANGED hits_asked
    /\ UNCHANGED <<bbox, hit_out>>
    /\ UNCHANGED callVars
    /\ UNCHANGED sceneVars
    /\ UNCHANGED schedVars

NextTrace ==
    \/ TracePath
    \/ TracePathFirst
    \/ TracePathContinue
    \/ TraceReturn

SpecTrace == InitTrace /\ [][NextTrace]_vars

\* the thread that traces the path runs on: a call that can take its next
\* step takes it.  NextTrace is enabled exactly until the path has ended, so
\* this is weak fairness of NextTrace, written without ENABLED
SpecTraceLive ==
    /\ InitTrace
    /\ [][NextTrace]_vars
    /\ []<>(trace_pc \in {"returned", "panicked"}) \/ []<><<NextTrace>>_vars

(***************************************************************************)
(* Texture::sample on its own: the calls it makes of itself through        *)
(* sample_checker, one at a time, on texture tables some of whose checkers *)
(* refer to themselves.                                                    *)
(***************************************************************************)

\* render.rs 12: texture tables of scene data.  In the second, TextureId(1) is
\* its own odd texture, and TextureId(2) and TextureId(3) are each other's odd
\* texture; in the third, TextureId(0) and TextureId(1) are each other's odd
\* texture and reach TextureId(2) on the even side
TablesSampled ==
    { TextureTable,
      << Solid(Rgb(50, 50, 50)), Checker(1, 0), Checker(3, 0), Checker(2, 1) >>,
      << Checker(1, 1), Checker(0, 2), Missing >> }

\* hit.position; its coordinates are integers, their own floors
PositionsSampled ==
    { <<x, y, 0>> : x \in -MaxSampled..MaxSampled, y \in -MaxSampled..MaxSampled }

\* texture.rs 35-39: the texture that sample_checker samples at a position.
\* The remainder of a negative odd sum is -1.0 in the code and 1 here, and
\* differs from zero in both
CheckerChosenEvenOnOdd(position, odd, even) ==
    IF (position[1] + position[2] + position[3]) % 2 = 0 THEN odd ELSE even
CheckerChosen(position, odd, even) ==
    IF (position[1] + position[2] + position[3]) % 2 = 0 THEN even ELSE odd

InitSample ==
    /\ SessionIdle
    /\ SceneIdle
    /\ bbox = <<>>
    /\ hit_out = <<>>
    /\ TraceIdle
    /\ BuildIdle
    /\ WalkIdle
    /\ sample_table \in TablesSampled
    /\ sample_at \in PositionsSampled
    /\ sample_of \in 0..(Len(sample_table) - 1)
    /\ sample_stack = <<sample_of>>
    /\ tail_call \in BOOLEAN
    /\ sample_pc = "sampling"
    /\ sample_color = <<>>

\* texture.rs 16-41: the innermost call of Texture::sample runs.  On Missing
\* or Solid it returns a colour, which every call that waits returns in its
\* turn; on Checker it calls sample_checker, which indexes the texture table
\* (a panic outside it) and calls Texture::sample on the entry: in a new
\* frame, which overflows a full stack and aborts the process, or, where the
\* build made the call a jump, in the frame of the caller
TextureSample ==
    /\ sample_pc = "sampling"
    /\ LET texture == sample_table[sample_stack[Len(sample_stack)] + 1]
           chosen == CheckerChosen(sample_at, texture.odd, texture.even)
       IN  IF texture.kind = "Missing"
           THEN /\ sample_pc' = "returned"
                /\ sample_color' = Rgb(0, 0, 0)
                /\ sample_stack' = <<>>
           ELSE IF texture.kind = "Solid"
           THEN /\ sample_pc' = "returned"
                /\ sample_color' = texture.color
                /\ sample_stack' = <<>>
           ELSE IF OutOfBounds(sample_table, chosen)
           THEN /\ sample_pc' = "panicked"
                /\ sample_stack' = <<>>
                /\ UNCHANGED sample_color
           ELSE IF tail_call
           THEN /\ sample_stack' = <<chosen>>
                /\ UNCHANGED <<sample_pc, sample_color>>
           ELSE IF Len(sample_stack) >= MaxFrames
           THEN /\ sample_pc' = "overflowed"
                /\ UNCHANGED <<sample_stack, sample_color>>
           ELSE /\ sample_stack' = Append(sample_stack, chosen)
                /\ UNCHANGED <<sample_pc, sample_color>>
    /\ UNCHANGED <<sample_table, sample_at, sample_of, tail_call>>
    /\ UNCHANGED schedVars
    /\ UNCHANGED sceneVars
    /\ UNCHANGED <<bbox, hit_out>>
    /\ UNCHANGED traceVars
    /\ UNCHANGED <<buildVars, walkVars>>

NextSample == TextureSample

\* the thread that samples runs on: a call that can run does
SpecSample == InitSample /\ [][NextSample]_vars /\ WF_vars(TextureSample)

\* worker w is somewhere in its loop
InLoop(w) == pc[w] \in {"lock_queue", "pop", "render", "lock_complete", "push"}

\* C19: a worker holds the job_queue mutex only at its pop and the
\* complete_jobs mutex only at its push, so it holds neither while it renders
\* and never both; at most one worker is at the pop and at most one at the
\* push; and while the process runs and some worker is in its loop, some
\* worker can take a step: no worker waits for a mutex that is never released
C19_LocksOnlyAroundPopAndPush ==
    /\ \A w \in Workers :
          /\ queue_lock = w => pc[w] = "pop"
          /\ complete_lock = w => pc[w] = "push"
          /\ pc[w] = "render" => (queue_lock # w /\ complete_lock # w)
          /\ ~(queue_lock = w /\ complete_lock = w)
    /\ Cardinality({w \in Workers : pc[w] = "pop"}) <= 1
    /\ Cardinality({w \in Workers : pc[w] = "push"}) <= 1
    /\ (Running /\ \E w \in Workers : InLoop(w))
          => \E w \in Workers : ENABLED WorkerStep(w)

\* one worker renders its tile while the other holds the job_queue mutex
C19_Witness ==
    /\ pc[1] = "render"
    /\ pc[2] = "pop"
    /\ queue_lock = 2
    /\ complete_lock = 0

\* the states of the tile at offset o: in the job queue, in the hands of
\* worker w, in complete_jobs
Pending(o) == TilesAt(job_queue, o) # {}
InFlight(o, w) == job[w] # <<>> /\ job[w][1].pixel_offset = o
Complete(o) == TilesAt(complete_jobs, o) # {}

\* C20: a tile is in at most one of the states Pending, InFlight(w) and
\* Complete, and a step moves it forward only: it leaves Pending for the hands
\* of a worker, it leaves them for Complete (or is dropped when its worker
\* panics), a tile in flight or complete is not pending afterwards and a
\* complete tile stays complete
C20_TilesMoveForward ==
    /\ [](\A k \in DOMAIN initial_tiles :
            LET o == initial_tiles[k].pixel_offset
            IN  Cardinality({w \in Workers : InFlight(o, w)})
                    + (IF Pending(o) THEN 1 ELSE 0)
                    + (IF Complete(o) THEN 1 ELSE 0) <= 1)
    /\ [][\A k \in DOMAIN initial_tiles :
            LET o == initial_tiles[k].pixel_offset
            IN  /\ ((\E w \in Workers : InFlight(o, w)) \/ Complete(o))
                      => ~Pending(o)'
                /\ Complete(o)
                      => (Complete(o)' /\ \A w \in Workers : ~InFlight(o, w)')
                /\ (Pending(o) /\ ~Pending(o)')
                      => \E w \in Workers : InFlight(o, w)'
                /\ \A w \in Workers :
                      (InFlight(o, w) /\ ~InFlight(o, w)')
                          => (Complete(o)' \/ pc'[w] = "panicked")]_vars

\* one tile is complete, one is in the hands of a worker, one is pending
C20_Witness ==
    \E a, b, c \in DOMAIN initial_tiles :
        /\ Complete(initial_tiles[a].pixel_offset)
        /\ \E w \in Workers : InFlight(initial_tiles[b].pixel_offset, w)
        /\ Pending(initial_tiles[c].pixel_offset)

(***************************************************************************)
(* Properties of the path tracer.                                          *)
(***************************************************************************)
\* C12, as stated: once trace_path has been called with depth = 0, it has
\* returned, and the colour it returned is black
C12_DepthZeroReturnsBlack ==
    (depth = 0 /\ trace_pc # "call")
        => (trace_pc = "returned" /\ trace_out[1].final_color = Rgb(0, 0, 0))

\* C12, amended: trace_path called with depth = 0 panics on its assertion and
\* returns no colour; black is what trace_path_continue returns when the
\* depth left to it is 0, before any caller has added to it
C12_DepthZeroPanicsAndContinuationIsBlack ==
    /\ (depth = 0 /\ trace_pc # "call")
          => (trace_pc = "panicked" /\ trace_out = None)
    /\ (trace_pc = "unwind" /\ trace_depth = 0 /\ Len(frames) = depth)
          => trace_color = Rgb(0, 0, 0)

\* a scene and a ray given to trace_path with depth = 0, after the call
C12_Witness ==
    /\ depth = 0
    /\ trace_pc = "panicked"
    /\ hittables # <<>>
    /\ Hit(ListOf(<<hittables[1]>>), ray) # None

\* the material identifier of a member of a scene that is traced
MaterialOf(x) ==
    IF x.kind = "Sphere" THEN x.material ELSE MeshAt(x.mesh)[1].material

\* every material of the scene is in the table, absorbs by an
\* Absorb::Albedo(c) with every channel of c in [0, 1], and emits nothing
AlbedoOnly ==
    /\ ~HitPanics(ListOf(hittables), ray)
    /\ \A i \in 1..Len(hittables) :
          /\ ~OutOfBounds(MaterialTable, MaterialOf(hittables[i]))
          /\ LET material == MaterialAt(MaterialOf(hittables[i]))[1]
             IN  /\ material.absorb.kind = "Albedo"
                 /\ \A ch \in 1..3 : material.absorb.color[ch] \in 0..Unit
                 /\ material.emit = "None"

\* the product of the colours of a sequence
RECURSIVE ProductOf(_)
ProductOf(colors) ==
    IF colors = <<>> THEN Rgb(100, 100, 100)
    ELSE ColorMul(ProductOf(SubSeq(colors, 1, Len(colors) - 1)), colors[Len(colors)])

\* what the path can bring back: the background it reached multiplied by the
\* albedos it visited, and nothing when it reached no background
PathBound ==
    IF reached = None THEN Rgb(0, 0, 0) ELSE ColorMul(ProductOf(visited), reached[1])

\* x <= y on channels.  In a scene that is AlbedoOnly the one colour that is
\* not computed is that of the sky along a ray whose direction is not
\* computed: its channels are positive, and a channel that is not computed
\* is the same product of the same factors on both sides
ChannelAtMost(x, y) ==
    IF x \in { ChannelNaN, ChannelUnknown } \/ y \in { ChannelNaN, ChannelUnknown }
    THEN x = y \/ (x = 0 /\ y = ChannelUnknown)
    ELSE x <= y

\* C16: in a scene that is AlbedoOnly, each channel of the colour trace_path
\* returns is at most that channel of the background reached multiplied by
\* the albedos visited, and each return to a caller leaves every channel
\* where it was or lower
C16_EnergyNotCreated ==
    /\ [](AlbedoOnly /\ trace_pc = "returned"
            => \A ch \in 1..3 : ChannelAtMost(trace_out[1].final_color[ch], PathBound[ch]))
    /\ [][AlbedoOnly /\ trace_pc = "unwind" /\ trace_pc' = "unwind"
            => \A ch \in 1..3 : ChannelAtMost(trace_color'[ch], trace_color[ch])]_vars

\* a path that visited two albedos, reached a background that is not black
\* and brought back less than it
C16_Witness ==
    /\ AlbedoOnly
    /\ trace_pc = "returned"
    /\ Len(visited) = 2
    /\ reached # None
    /\ \A ch \in 1..3 : reached[1][ch] > 0 /\ reached[1][ch] <= Unit
    /\ trace_out[1].final_color = PathBound
    /\ \E ch \in 1..3 : trace_out[1].final_color[ch] < reached[1][ch]

\* the camera ray strikes a sphere of MaterialId(0), the Lambert material of
\* albedo (0.8, 0.8, 0.0) that emits nothing
StrikesLambertSphere ==
    /\ ~HitPanics(ListOf(hittables), ray)
    /\ Hit(ListOf(hittables), ray) # None
    /\ Hit(ListOf(hittables), ray)[1].material = 0
    /\ \E i \in 1..Len(hittables) :
          /\ hittables[i].kind = "Sphere"
          /\ Hit(hittables[i], ray) = Hit(ListOf(hittables), ray)

\* C17: trace_path at depth 1 on a ray that strikes the Lambert sphere,
\* against the sky, returns black, the continuation having been cut at depth
\* 0 and multiplied by the albedo; every channel is strictly below that of
\* the background the ray would have shown
C17_DepthOneLambertIsDarker ==
    (depth = 1 /\ background = "SkyBackground" /\ StrikesLambertSphere
         /\ trace_pc = "returned")
        => /\ trace_out[1].hit
           /\ visited = <<Rgb(80, 80, 0)>>
           /\ reached = None
           /\ trace_out[1].final_color = Rgb(0, 0, 0)
           /\ \A ch \in 1..3 :
                 trace_out[1].final_color[ch] < EmitEvaluate(background, ray, None)[ch]

\* the sphere alone, struck head-on at depth 1 under the sky
C17_Witness ==
    /\ depth = 1
    /\ background = "SkyBackground"
    /\ hittables = <<Sphere(<<0, 0, -4>>, 2, 0)>>
    /\ ray.direction = <<0, 0, -1>>
    /\ StrikesLambertSphere
    /\ trace_pc = "returned"

\* the identifiers a table holds
IdsOf(table) == 0..(Len(table) - 1)

\* sampling the texture an identifier names reads an identifier outside the
\* texture table: this one, or the one a checker picks at the hit
RECURSIVE SamplesOutside(_, _)
SamplesOutside(tid, hit) ==
    \/ tid \notin IdsOf(TextureTable)
    \/ /\ TextureTable[tid + 1].kind = "Checker"
       /\ LET p == hit.position
              texture == TextureTable[tid + 1]
          IN  SamplesOutside(IF (p[1] + p[2] + p[3]) % 2 = 0
                             THEN texture.even ELSE texture.odd, hit)

\* some triangle of the scene names a mesh outside the mesh table
MeshOutside ==
    \E i \in 1..Len(hittables) :
        hittables[i].kind = "Triangle" /\ hittables[i].mesh \notin IdsOf(MeshTable)

\* the hit of the ray r names a material outside the material table, or a
\* material whose albedo map reads a texture outside the texture table
MaterialOrTextureOutside(r) ==
    /\ r.direction \notin { NaNs, Unknowns }
    /\ ~HitPanics(ListOf(hittables), r)
    /\ Hit(ListOf(hittables), r) # None
    /\ LET found == Hit(ListOf(hittables), r)[1]
       IN  \/ found.material \notin IdsOf(MaterialTable)
           \/ /\ MaterialTable[found.material + 1].absorb.kind = "AlbedoMap"
              /\ SamplesOutside(MaterialTable[found.material + 1].absorb.tid,
                                found.hit)

\* whatever the ray r hits, it hits, and the hit names a material outside
\* the material table
MaterialOutsideWhateverHit(r) ==
    /\ ~HitPanics(ListOf(hittables), r)
    /\ \A found \in SceneHit(hittables, r) :
          found # None /\ found[1].material \notin IdsOf(MaterialTable)

\* C18: a call of trace_path_first or trace_path_continue that hits the
\* scene with a mesh identifier outside the mesh table, or evaluates a
\* material identifier outside the material table or a texture identifier
\* outside the texture table, panics; and after a panic trace_path has
\* returned nothing
C18_OutsideItsTableIsFatal ==
    /\ [][(/\ \/ trace_pc = "first"
              \/ trace_pc = "continue" /\ trace_depth > 0
           /\ \/ MeshOutside
              \/ MaterialOrTextureOutside(trace_ray)
              \/ MaterialOutsideWhateverHit(trace_ray))
            => trace_pc' = "panicked"]_vars
    /\ [](trace_pc = "panicked" => trace_out = None)

\* a scattered ray hit a material whose albedo map reads a texture outside
\* the table, and the trace stopped there
C18_Witness ==
    /\ trace_pc = "panicked"
    /\ Len(visited) = 1
    /\ ~MeshOutside
    /\ MaterialOrTextureOutside(trace_ray)
    /\ Hit(ListOf(hittables), trace_ray)[1].material \in IdsOf(MaterialTable)

(***************************************************************************)
(* Properties of the hit tests.                                            *)
(***************************************************************************)
\* the members of the scene whose own hit on the ray is at the parameter t
MembersAt(t) ==
    { i \in 1..Len(hittables) :
        Hit(hittables[i], ray) # None /\ Hit(hittables[i], ray)[1].hit.t = t }

\* C13, as stated: the hit a list returns is the hit of the earliest of its
\* members that hit at the returned t
C13_TieKeepsEarliest ==
    (list_hit # <<>> /\ list_hit[1] # None)
        => list_hit[1] = Hit(hittables[Least(MembersAt(list_hit[1][1].hit.t))], ray)

\* C13, amended: a member replaces the best hit whenever it hits within the
\* shrunk interval, equal t included, so the hit a list returns is the hit
\* of the latest of its members that hit at the returned t, and no member
\* hits closer
C13_TieKeepsLatest ==
    (list_hit # <<>> /\ list_hit[1] # None)
        => /\ list_hit[1]
                = Hit(hittables[Greatest(MembersAt(list_hit[1][1].hit.t))], ray)
           /\ \A i \in 1..Len(hittables) :
                 Hit(hittables[i], ray) # None
                     => Hit(hittables[i], ray)[1].hit.t >= list_hit[1][1].hit.t

\* a list was hit where two members with different hits tie
C13_Witness ==
    /\ list_hit # <<>>
    /\ list_hit[1] # None
    /\ \E i, j \in MembersAt(list_hit[1][1].hit.t) :
          i < j /\ Hit(hittables[i], ray) # Hit(hittables[j], ray)

\* the parameters at which the line of a ray meets a sphere, found by trying
\* every integer the sphere can reach
RootsOn(x, r) ==
    LET away == Sub(r.origin, x.center)
        reach == Abs(away[1]) + Abs(away[2]) + Abs(away[3]) + x.radius
    IN  { t \in -reach..reach :
            NormSquared(Sub(At(r, t), x.center)) = x.radius * x.radius }

Within(t, r) == r.t_min <= t /\ t <= r.t_max

\* C14: every hit of a sphere or of a triangle has its t in [t_min, t_max]
\* of the ray; and when the line of the ray crosses a sphere at two points,
\* the hit is at the closer one if it is in the interval, else at the
\* farther one if that one is in the interval, else there is no hit
C14_HitWithinIntervalNearestRoot ==
    hit_out # <<>> =>
        \A i \in 1..Len(hittables) :
            LET x == hittables[i]
                found == hit_out[1][i]
            IN  /\ found # None => Within(found[1].hit.t, ray)
                /\ (x.kind = "Sphere" /\ Cardinality(RootsOn(x, ray)) = 2) =>
                      LET closer == Least(RootsOn(x, ray))
                          farther == Greatest(RootsOn(x, ray))
                      IN  IF Within(closer, ray)
                          THEN found # None /\ found[1].hit.t = closer
                          ELSE IF Within(farther, ray)
                          THEN found # None /\ found[1].hit.t = farther
                          ELSE found = None

\* a sphere hit at its farther root, the closer one being behind t_min, next
\* to a triangle that is hit too
C14_Witness ==
    /\ hit_out # <<>>
    /\ \E i \in 1..Len(hittables) :
          /\ hittables[i].kind = "Sphere"
          /\ Cardinality(RootsOn(hittables[i], ray)) = 2
          /\ Least(RootsOn(hittables[i], ray)) < ray.t_min
          /\ hit_out[1][i] # None
          /\ hit_out[1][i][1].hit.t = Greatest(RootsOn(hittables[i], ray))
    /\ \E j \in 1..Len(hittables) :
          hittables[j].kind = "Triangle" /\ hit_out[1][j] # None

\* n / det is in [0, 1]
IsWeight(n, det) == n * det >= 0 /\ Abs(n) <= Abs(det)

\* C15: when a triangle reports a hit, its weights w, u and v are each in
\* [0, 1], their sum is 1, and they place the hit: w * a + u * b + v * c is
\* the position of the hit; when the determinant of the ray against the
\* triangle is zero, no hit is reported
C15_TriangleWeights ==
    hit_out # <<>> =>
        \A i \in 1..Len(hittables) :
            hittables[i].kind = "Triangle" =>
                LET tri == GetTriangle(MeshTable[hittables[i].mesh + 1],
                                       hittables[i].triangle)
                    s == TriangleSystem(tri, ray)
                    w == s.det - s.u - s.v
                    found == hit_out[1][i]
                IN  /\ s.det = 0 => found = None
                    /\ found # None =>
                          /\ IsWeight(w, s.det)
                          /\ IsWeight(s.u, s.det)
                          /\ IsWeight(s.v, s.det)
                          /\ w + s.u + s.v = s.det
                          /\ Add(Scale(w, tri[1].position),
                                 Add(Scale(s.u, tri[2].position),
                                     Scale(s.v, tri[3].position)))
                               = Scale(s.det, found[1].hit.position)

\* a triangle hit strictly inside, none of its weights being 0
C15_Witness ==
    /\ hit_out # <<>>
    /\ \E i \in 1..Len(hittables) :
          /\ hittables[i].kind = "Triangle"
          /\ hit_out[1][i] # None
          /\ LET s == TriangleSystem(GetTriangle(MeshTable[hittables[i].mesh + 1],
                                                 hittables[i].triangle), ray)
             IN  s.u # 0 /\ s.v # 0 /\ s.det - s.u - s.v # 0

(***************************************************************************)
(* The order of the queue, the merge and the count of the tiles.           *)
(***************************************************************************)
\* the offsets of the tiles of a list, in the order of the list
OffsetsOf(tiles) == [k \in DOMAIN tiles |-> tiles[k].pixel_offset]

\* a list back to front
Reversed(list) == [k \in DOMAIN list |-> list[Len(list) + 1 - k]]

\* the pops of a step: the workers that leave "pop" with a tile
Popping(w) == pc[w] = "pop" /\ pc'[w] = "render"

\* C21: the job queue is a stack.  Every pop takes the tile that is last in
\* the queue and leaves the tiles before it, so the queue is always a
\* prefix of the list Tile::new generated (the tiles are dequeued in the
\* reverse of their row-major order); with a single worker the completed
\* tiles are, in order, the reverse of the generated list.
C21_QueueIsAStack ==
    /\ [](/\ job_queue = SubSeq(initial_tiles, 1, Len(job_queue))
          /\ num_workers = 1 =>
                OffsetsOf(complete_jobs)
                    = SubSeq(Reversed(OffsetsOf(initial_tiles)), 1, Len(complete_jobs)))
    /\ [][\A w \in Workers : Popping(w) =>
             /\ job'[w] = <<job_queue[Len(job_queue)]>>
             /\ job'[w][1] = initial_tiles[Len(job_queue)]
             /\ job_queue' = SubSeq(job_queue, 1, Len(job_queue) - 1)]_vars

\* a single worker has completed a tiling of two rows and two columns
C21_Witness ==
    /\ num_workers = 1
    /\ mainpc = "done"
    /\ Len(initial_tiles) = 4
    /\ Len(complete_jobs) = 4
    /\ initial_tiles[2].pixel_offset[2] = 0
    /\ initial_tiles[3].pixel_offset[2] > 0

\* main.rs 157-160 as a function: the image the merge loop makes of a list of
\* tiles, from its k-th tile on
RECURSIVE MergeFrom(_, _, _)
MergeFrom(tiles, img, k) ==
    IF k > Len(tiles) THEN img
    ELSE MergeFrom(tiles, WriteTo(tiles[k], img), k + 1)

\* the completed tiles in another order
Reordered(f) == [k \in DOMAIN complete_jobs |-> complete_jobs[f[k]]]

\* the workers main spawned have all been joined
AllJoined == \A w \in 1..num_workers : pc[w] = "exited"

\* C22: the merge runs only once every worker has been joined; a write_to
\* sets the pixels of the tile's rectangle at its offset to the tile's
\* pixels and changes no other pixel nor the size of the image; the merged
\* image is the same for every order of the completed tiles.
C22_MergeIsOrderIndependent ==
    /\ [](/\ mainpc \in {"merge", "save", "done"} => AllJoined
          /\ mainpc \in {"save", "done"} =>
                \A f \in Permutations(DOMAIN complete_jobs) :
                    MergeFrom(Reordered(f), NewImage(full_width, full_height), 1)
                        = output[1])
    /\ [][(mainpc = "merge" /\ main_i' = main_i + 1) =>
             LET t == complete_jobs[main_i]
             IN  /\ output'[1].width = output[1].width
                 /\ output'[1].height = output[1].height
                 /\ Len(output'[1].data) = Len(output[1].data)
                 /\ \A p \in ImagePixels :
                       GetPixel(output'[1], p[1], p[2]) =
                           IF p \in TileRect(t)
                           THEN GetPixel(t.pixels, p[1] - t.pixel_offset[1],
                                         p[2] - t.pixel_offset[2])
                           ELSE GetPixel(output[1], p[1], p[2])]_vars

\* two workers completed four tiles in another order than they were dequeued
\* in, and the tiles were merged
C22_Witness ==
    /\ mainpc = "done"
    /\ num_workers = 2
    /\ Len(complete_jobs) = 4
    /\ OffsetsOf(complete_jobs) # Reversed(OffsetsOf(initial_tiles))
    /\ \E k \in DOMAIN complete_jobs : complete_jobs[k].pixels.width = 1

\* the tiles the workers hold
Held == {w \in Workers : job[w] # <<>>}

\* the offsets of the tiles in the queue, in the workers' hands and completed
OffsetsInPlay ==
    {job_queue[k].pixel_offset : k \in DOMAIN job_queue}
        \cup {job[w][1].pixel_offset : w \in Held}
        \cup {complete_jobs[k].pixel_offset : k \in DOMAIN complete_jobs}

NoWorkerPanicked == \A w \in Workers : pc[w] # "panicked"

\* C27: as long as no worker has panicked, the tiles in the job queue, those
\* held by workers and those in the completed collection number N together,
\* N being the number of tiles Tile::new returned, and they are the tiles of
\* the tiling: no pop, render or push creates or loses a tile.
C27_TilesAreConserved ==
    NoWorkerPanicked =>
        /\ Len(job_queue) + Cardinality(Held) + Len(complete_jobs) = Len(initial_tiles)
        /\ OffsetsInPlay = {initial_tiles[k].pixel_offset : k \in DOMAIN initial_tiles}

\* tiles are in the queue, in the hands of both workers and completed
C27_Witness ==
    /\ NoWorkerPanicked
    /\ Len(initial_tiles) = 4
    /\ job_queue # <<>>
    /\ Cardinality(Held) = 2
    /\ complete_jobs # <<>>

(***************************************************************************)
(* The shape of the tree.                                                  *)
(***************************************************************************)
\* the longest path, in edges, from node k down to a leaf
RECURSIVE DepthUnder(_, _)
DepthUnder(b, k) ==
    IF NodeAt(b, k).kind = "Leaf" THEN 0
    ELSE 1 + Max(DepthUnder(b, NodeAt(b, k).left), DepthUnder(b, NodeAt(b, k).right))

RECURSIVE Pow2(_)
Pow2(d) == IF d = 0 THEN 1 ELSE 2 * Pow2(d - 1)

\* the least d with 2^d >= n
CeilLog2(n) == CHOOSE d \in 0..n : Pow2(d) >= n /\ (d = 0 \/ Pow2(d - 1) < n)

\* C23: the tree built over n >= 1 primitives has depth ceil(log2 n), and
\* every Branch over k leaves has floor(k/2) of them under its left child
\* and the others, ceil(k/2), under its right child.
C23_DepthIsCeilLog2 ==
    bvh_pc = "built" =>
        /\ DepthUnder(bvh[1], bvh[1].root) = CeilLog2(Len(hittables))
        /\ \A k \in NodeIds(bvh[1]) :
              NodeAt(bvh[1], k).kind = "Branch" =>
                  LET under == Cardinality(LeavesUnder(bvh[1], k))
                      left == Cardinality(LeavesUnder(bvh[1], NodeAt(bvh[1], k).left))
                      right == Cardinality(LeavesUnder(bvh[1], NodeAt(bvh[1], k).right))
                  IN  /\ left = under \div 2
                      /\ right = under - (under \div 2)

\* the tree Bvh::new builds over five primitives is three edges deep
C23_Witness ==
    /\ bvh_pc = "built"
    /\ build_axis = 0
    /\ Len(hittables) = 5
    /\ DepthUnder(bvh[1], bvh[1].root) = 3

\* twice the centroid of a box on an axis
TwiceCentroid(bb, axis) == bb.min[axis + 1] + bb.max[axis + 1]

\* the ids of the primitives in the leaves under node k
PrimitivesUnder(b, k) == {NodeAt(b, j).leaf : j \in LeavesUnder(b, k)}

\* the subtree of node k is split on axis, its children on the next axis
RECURSIVE SplitOnAxis(_, _, _)
SplitOnAxis(b, k, axis) ==
    LET n == NodeAt(b, k)
    IN  n.kind = "Branch" =>
            /\ PrimitivesUnder(b, n.left) # {}
            /\ PrimitivesUnder(b, n.right) # {}
            /\ PrimitivesUnder(b, n.left) \cap PrimitivesUnder(b, n.right) = {}
            /\ Cardinality(PrimitivesUnder(b, n.left))
                  + Cardinality(PrimitivesUnder(b, n.right))
                  = Cardinality(LeavesUnder(b, k))
            /\ Cardinality(PrimitivesUnder(b, n.left)) = Cardinality(LeavesUnder(b, k)) \div 2
            /\ \A l \in LeavesUnder(b, n.left), r \in LeavesUnder(b, n.right) :
                  TwiceCentroid(NodeAt(b, l).aabb, axis)
                      <= TwiceCentroid(NodeAt(b, r).aabb, axis)
            /\ SplitOnAxis(b, n.left, (axis + 1) % 3)
            /\ SplitOnAxis(b, n.right, (axis + 1) % 3)

\* C24: a make_bvh called with sort_axis a splits its slice on axis a and
\* its two halves on the next axis of the cycle x, y, z, x, and so on down
\* the tree; each split leaves two non-empty halves, the lower of
\* floor(len/2) elements, that hold each element of the slice once, with
\* every centroid of the lower half <= every centroid of the upper half on
\* the axis of the split.
C24_SplitsAtMedianOnCyclingAxis ==
    bvh_pc = "built" =>
        /\ PrimitivesUnder(bvh[1], bvh[1].root) = 0..(Len(hittables) - 1)
        /\ SplitOnAxis(bvh[1], bvh[1].root, build_axis)

\* five primitives at three places or more, split on z, then x, then y
C24_Witness ==
    /\ bvh_pc = "built"
    /\ build_axis = 2
    /\ Len(hittables) = 5
    /\ Cardinality({hittables[i] : i \in 1..5}) >= 3
    /\ DepthUnder(bvh[1], bvh[1].root) = 3

\* C29: Bvh::new on an empty list of primitives ends in a panic and returns
\* no tree; every Bvh it returns has a leaf, and its root is the id of one
\* of its nodes.
C29_EmptyBuildIsFatal ==
    /\ (hittables = <<>> /\ bvh_pc # "new") => (bvh_pc = "panicked" /\ bvh = None)
    /\ bvh_pc = "built" =>
          /\ Len(bvh[1].leaves) >= 1
          /\ bvh[1].root \in NodeIds(bvh[1])
          /\ \E k \in NodeIds(bvh[1]) :
                /\ NodeAt(bvh[1], k).kind = "Leaf"
                /\ NodeAt(bvh[1], k).leaf \in 0..(Len(bvh[1].leaves) - 1)

\* Bvh::new was called on the empty list, and has panicked
C29_Witness ==
    /\ hittables = <<>>
    /\ bvh_pc = "panicked"
    /\ bvh = None

(***************************************************************************)
(* The traversal of the tree.                                              *)
(***************************************************************************)
\* the places, among the calls of the traversal, of the calls on node k
CallsOn(k) == {i \in DOMAIN walk : walk[i].node = k}
CallOn(k) == CHOOSE i \in CallsOn(k) : TRUE

\* the nodes of the subtree of node k
RECURSIVE NodesUnder(_, _)
NodesUnder(b, k) ==
    IF NodeAt(b, k).kind = "Leaf" THEN {k}
    ELSE {k} \cup NodesUnder(b, NodeAt(b, k).left) \cup NodesUnder(b, NodeAt(b, k).right)

\* the ray of a call misses the box of the node of the call
BoxMissed(c) ==
    ~Collide(NodeAt(bvh[1], c.node).aabb,
             [Expand(ray) EXCEPT !.inner.t_max = c.t_max])

\* the call at place i, on a Branch, went as C25 says
BranchAsClaimed(i) ==
    LET c == walk[i]
        n == NodeAt(bvh[1], c.node)
    IN  IF BoxMissed(c)
        THEN /\ c.out = None
             /\ \A j \in DOMAIN walk :
                   walk[j].node \in NodesUnder(bvh[1], c.node) => j = i
        ELSE /\ CallsOn(n.left) # {}
             /\ CallsOn(n.right) # {}
             /\ LET l == walk[CallOn(n.left)]
                    r == walk[CallOn(n.right)]
                IN  /\ i < CallOn(n.left)
                    /\ CallOn(n.left) < CallOn(n.right)
                    /\ l.t_max = c.t_max
                    /\ r.t_max = IF l.out # None THEN l.out[1].hit.t ELSE c.t_max
                    /\ IF r.out # None
                       THEN /\ c.out = r.out
                            /\ l.out # None => r.out[1].hit.t <= l.out[1].hit.t
                       ELSE c.out = l.out

\* C25: in the traversal of Bvh::hit, a Branch whose box the ray misses
\* returns None and no node or primitive of its subtree is tested; another
\* Branch has its left child tested first, with the Branch's ray, then its
\* right child, with t_max lowered to the t of the left hit if there is
\* one, and returns the right hit if there is one, which is then not
\* farther than the left hit, and the left result otherwise.
C25_TraversalPrunesAndShrinks ==
    walk # <<>> =>
        /\ walk[1].node = bvh[1].root
        /\ walk[1].t_max = ray.t_max
        /\ bvh_hit = <<walk[1].out>>
        /\ \A k \in NodeIds(bvh[1]) : Cardinality(CallsOn(k)) <= 1
        /\ \A i \in DOMAIN walk :
              IF NodeAt(bvh[1], walk[i].node).kind = "Branch"
              THEN walk[i].tested = -1 /\ BranchAsClaimed(i)
              ELSE walk[i].tested # -1 => ~BoxMissed(walk[i])

\* the left child of the root was hit, and the right child, a Branch the
\* ray of the root would enter, is missed by the shortened ray: its leaves
\* are not tested
C25_Witness ==
    /\ walk # <<>>
    /\ NodeAt(bvh[1], bvh[1].root).kind = "Branch"
    /\ ~BoxMissed(walk[1])
    /\ LET n == NodeAt(bvh[1], bvh[1].root)
       IN  /\ walk[CallOn(n.left)].out # None
           /\ NodeAt(bvh[1], n.right).kind = "Branch"
           /\ walk[CallOn(n.right)].t_max < ray.t_max
           /\ BoxMissed(walk[CallOn(n.right)])
           /\ ~BoxMissed([walk[CallOn(n.right)] EXCEPT !.t_max = ray.t_max])
           /\ Len(walk) = 3


(***************************************************************************)
(* The ends of a path.                                                     *)
(***************************************************************************)
\* the innermost call is about to hit the scene
Asking == trace_pc = "first" \/ (trace_pc = "continue" /\ trace_depth > 0)

\* what scene.hit may give the innermost call
Found == SceneHit(hittables, trace_ray)

\* C26: whichever of its possible answers scene.hit gives, a call whose ray
\* hits nothing returns the background emission with no material
\* evaluated; a call whose struck material scatters no ray
\* returns the material's emission alone; a call whose struck material
\* scatters a ray, and no other, calls trace_path_continue on that ray with
\* its depth less 1; and once a call has returned without recursing, no
\* scene is hit and no material is evaluated any more.
C26_OnlyScatterRecurses ==
    /\ [][(Asking /\ trace_pc' # "panicked") =>
            /\ hits_asked' = hits_asked + 1
            /\ \E found \in Found :
               /\ IF found = None
                  THEN /\ trace_pc' = "unwind"
                       /\ trace_color' = EmitEvaluate(background, trace_ray, None)
                       /\ evaluated' = evaluated
                       /\ frames' = frames
                       /\ trace_depth' = trace_depth
                  ELSE LET material == MaterialTable[found[1].material + 1]
                           scattered == ScatterEvaluate(material.scatter, trace_ray,
                                                        found[1].hit)
                       IN  /\ ~OutOfBounds(MaterialTable, found[1].material)
                           /\ evaluated' = evaluated + 1
                           /\ IF trace_pc' = "continue"
                              THEN /\ Some(trace_ray') \in scattered
                                   /\ trace_depth' = trace_depth - 1
                                   /\ Len(frames') = Len(frames) + 1
                              ELSE /\ trace_pc' = "unwind"
                                   /\ None \in scattered
                                   /\ trace_color'
                                         = EmitEvaluate(material.emit, trace_ray, found[1].hit)
                                   /\ frames' = frames
                                   /\ trace_depth' = trace_depth]_vars
    /\ [][trace_pc = "unwind" =>
            /\ trace_pc' \in {"unwind", "returned"}
            /\ hits_asked' = hits_asked
            /\ evaluated' = evaluated
            /\ Len(frames') <= Len(frames)]_vars

\* a path of depth 3 has returned after two rays: one bounce, then a
\* material that scatters no ray, its emission at the end of the path
C26_Witness ==
    /\ trace_pc = "returned"
    /\ depth = 3
    /\ hits_asked = 2
    /\ evaluated = 2
    /\ trace_depth = 2
    /\ reached = <<>>

\* the path has ended
Ended == trace_pc \in {"returned", "panicked"}

\* C28: a trace_path of depth >= 1 ends, having hit the scene at most depth
\* times and evaluated at most depth materials; the depth of a call never
\* grows and is less in a call made by a bounce; the path that returns has
\* stopped on a miss, on a call of depth 0 or on a material that scattered
\* no ray.
C28_PathEndsWithinDepth ==
    /\ <>Ended
    /\ [](/\ hits_asked <= depth
          /\ evaluated <= hits_asked
          /\ trace_depth >= 0
          /\ trace_pc = "returned" =>
                \/ reached # <<>> /\ evaluated = hits_asked - 1
                \/ reached = <<>> /\ trace_depth = 0 /\ hits_asked = depth
                                  /\ evaluated = depth
                \/ reached = <<>> /\ trace_depth = depth - hits_asked + 1
                                  /\ evaluated = hits_asked)
    /\ [][(trace_pc \in {"first", "continue", "unwind"}) =>
            /\ trace_depth' <= trace_depth
            /\ Len(frames') > Len(frames) => trace_depth' < trace_depth]_vars

\* a path of the greatest depth has used all of it: as many scene hits and
\* material evaluations as its depth, then a call of depth 0
C28_Witness ==
    /\ trace_pc = "returned"
    /\ depth = MaxDepth
    /\ hits_asked = depth
    /\ evaluated = depth
    /\ trace_depth = 0

RECURSIVE ChainEnd(_, _, _, _)

\* where the odd and even references that a position selects lead from the
\* texture id of a table: to the id of a texture that is no Checker, to -1
\* once a reference names no entry of the table, and to -2 when more
\* Checkers follow one another than `left` allows
ChainEnd(table, id, position, left) ==
    IF id >= Len(table) THEN -1
    ELSE IF table[id + 1].kind # "Checker" THEN id
    ELSE IF left = 0 THEN -2
    ELSE ChainEnd(table,
                  IF (position[1] + position[2] + position[3]) % 2 = 0
                  THEN table[id + 1].even ELSE table[id + 1].odd,
                  position, left - 1)

\* where the chain of the texture sampled leads; a chain of more Checkers
\* than the table has entries comes back to one of them, and so goes round
\* for ever
Reaches == ChainEnd(sample_table, sample_of, sample_at, Len(sample_table))

\* C30: Texture::sample returns a colour exactly when the chain of Checker
\* references selected by the position reaches a texture that is no Checker,
\* and the colour is that texture's; when the chain comes back to a Checker
\* of itself the call never returns and never panics: every step of it is
\* one more call of Texture::sample on a Checker, until the stack is full
\* where calls take frames, and for ever where they do not.
C30_SampleEndsIffChainEnds ==
    /\ [](sample_pc = "returned" =>
            /\ Reaches >= 0
            /\ sample_color = IF sample_table[Reaches + 1].kind = "Solid"
                              THEN sample_table[Reaches + 1].color
                              ELSE Rgb(0, 0, 0))
    /\ [](Reaches >= 0 => <>(sample_pc = "returned"))
    /\ [](Reaches = -2 => sample_pc \in {"sampling", "overflowed"})
    /\ [][(Reaches = -2 /\ sample_pc = "sampling") =>
            /\ sample_stack' # <<>>
            /\ sample_table[sample_stack'[Len(sample_stack')] + 1].kind = "Checker"
            /\ IF tail_call
               THEN sample_pc' = "sampling" /\ Len(sample_stack') = 1
               ELSE \/ sample_pc' = "sampling"
                       /\ Len(sample_stack') = Len(sample_stack) + 1
                    \/ sample_pc' = "overflowed"
                       /\ Len(sample_stack) = MaxFrames]_vars
    /\ [](Reaches = -2 /\ ~tail_call => <>(sample_pc = "overflowed"))

\* a Checker that refers to itself through another Checker was sampled: the
\* two called each other until the stack was full
C30_Witness ==
    /\ sample_pc = "overflowed"
    /\ Reaches = -2
    /\ Len(sample_stack) = MaxFrames
    /\ sample_stack[1] = sample_of
    /\ sample_stack[2] # sample_of
    /\ sample_stack[3] = sample_of

=============================================================================
